---- MODULE Spec2Model ----
(***************************************************************************)
(* A model of the vanadinite kernel core:                                  *)
(*   - mem/manager/address_map.rs : AddressMap (new, alloc, free, find)    *)
(*   - trap.rs                    : Trap, Trap::from_cause, trap_handler   *)
(*   - syscall/print.rs           : print                                  *)
(*   - mem/paging/manager.rs      : PageTableManager                       *)
(*   - librust capabilities.rs    : CapabilityRights                       *)
(*   - trap.rs                    : TrapFrame, stvec_trap_shim             *)
(* Addresses are byte addresses.  A usize that does not fit TLC's integers *)
(* (the trap cause) is kept as four 16-bit limbs, most significant first.  *)
(***************************************************************************)
EXTENDS Integers, Sequences, FiniteSets, TLC

VARIABLES
    map,        \* AddressMap.map : BTreeMap<VirtualAddress, AddressRegion>
    pre,        \* the map as it was when the last AddressMap call was entered
    last,       \* the last AddressMap call: its arguments and what it returned
    task_state, \* Task.state of every task
    context,    \* Task.context of every task: the saved pc and register frame
    page_flags, \* the leaf entries of every task's page table: page -> flags
    current,    \* CURRENT_TASK / TASKS.active_on_cpu() of this hart
    plic,       \* PLIC: whether it is set up and the interrupts pending in it
    trap,       \* the last run of trap_handler: its arguments and what it did
    panicked,   \* TRUE once a panic!() / unwrap() on None has been hit
    table,      \* the leaf entries of the Sv39PageTable a PageTableManager owns
    kernel_entries, \* its top-level entries of the kernel half
    sie,        \* sstatus.SIE of the hart: interrupts enabled
    stale,      \* the translations changed in the table and not invalidated since
    phys_free,  \* the pages PHYSICAL_MEMORY_ALLOCATOR has left
    ptm,        \* the PageTableManager call in progress and where it stands
    range_call, \* the alloc_virtual_range* call in progress: its arguments and loop index
    rights,     \* two CapabilityRights values and the outcome of comparing them
    hart        \* the registers, CSRs and memory stvec_trap_shim works on

amvars == <<map, pre, last>>

trapvars == <<task_state, context, page_flags, current, plic, trap>>

ptmvars == <<table, kernel_entries, sie, stale, phys_free, ptm, range_call>>

\* what the AddressMap calls and the traps leave alone
restvars == <<ptmvars, rights, hart>>

vars == <<map, pre, last, task_state, context, page_flags, current, plic, trap, panicked,
          table, kernel_entries, sie, stale, phys_free, ptm, range_call, rights, hart>>

(***************************************************************************)
(* Bounds of the model                                                     *)
(***************************************************************************)
\* number of 0x1000-byte granules in the modelled userspace range
NPages == 4

\* the number of regions a task holds at a time
MaxOccupied == 2

\* the addresses the calls are given: every granule boundary of the range and
\* one boundary past its end
Addrs == {i * 4096 : i \in 0..(NPages + 1)}

\* the MemoryRegion values handed to alloc
Backings == {"m1", "m2"}

\* the AddressRegionKind values handed to alloc
AllocKinds == {"Data", "Stack"}

None == "None"

(***************************************************************************)
(* VirtualAddress                                                          *)
(***************************************************************************)
\* VirtualAddress::userspace_range(): the half-open range of user addresses
userspace_range == [start |-> 0, end |-> NPages * 4096]

\* VirtualAddress::offset(bytes)
offset(a, bytes) == a + bytes

Range(s, e) == [start |-> s, end |-> e]

(***************************************************************************)
(* AddressRegion, AddressRegionKind                                        *)
(***************************************************************************)
AddressRegionKind ==
    {"Channel", "Data", "Guard", "ReadOnly", "Stack", "Text", "Tls", "Unoccupied", "UserAllocated"}

AddressRegion(region, span, kind) == [region |-> region, span |-> span, kind |-> kind]

is_unoccupied(r) == r.region = None

(***************************************************************************)
(* BTreeMap<VirtualAddress, AddressRegion> as a function from its keys     *)
(***************************************************************************)
Min(S) == CHOOSE x \in S : \A y \in S : x <= y

\* self.map.range(k..).next() is Some(..): some key is >= k
range_some(m, k) == \E x \in DOMAIN m : x >= k

\* self.map.range(k..).next(): the smallest key >= k
range_next(m, k) == Min({x \in DOMAIN m : x >= k})

\* self.map.insert(k, v): a value already stored under k is replaced
insert(m, k, v) == [x \in (DOMAIN m) \cup {k} |-> IF x = k THEN v ELSE m[x]]

\* self.map.remove(&k)
remove(m, k) == [x \in (DOMAIN m) \ {k} |-> m[x]]

(***************************************************************************)
(* AddressMap::new                                                         *)
(***************************************************************************)
new ==
    LET complete_range == userspace_range
    IN  insert(<<>>, complete_range.end, AddressRegion(None, complete_range, "Unoccupied"))

(***************************************************************************)
(* AddressMap::alloc                                                       *)
(***************************************************************************)
\* alloc_refused without the comparison of the span starts
alloc_refused_no_start(r, subrange) ==
    \/ r.span.end < subrange.end
    \/ r.region # None

\* alloc_refused without the test that the region is occupied
alloc_refused_no_occupied(r, subrange) ==
    \/ r.span.start > subrange.start
    \/ r.span.end < subrange.end

\* the guard of the first match arm: the call is refused
alloc_refused(r, subrange) ==
    \/ r.span.start > subrange.start
    \/ r.span.end < subrange.end
    \/ r.region # None

\* the split without the match on the equal bounds: three pieces every time
alloc_split_three(m, old_range, subrange, backing, kind) ==
    LET before == AddressRegion(None, Range(old_range.span.start, subrange.start), "Unoccupied")
        active == AddressRegion(backing, subrange, kind)
        after  == AddressRegion(None, Range(subrange.end, old_range.span.end), "Unoccupied")
    IN  insert(insert(insert(m, before.span.end, before), active.span.end, active),
               after.span.end, after)

\* the four arms of the split, given the region removed from the map
alloc_split(m, old_range, subrange, backing, kind) ==
    LET active == AddressRegion(backing, subrange, kind)
        s_eq   == old_range.span.start = subrange.start
        e_eq   == old_range.span.end = subrange.end
    IN  IF s_eq /\ ~e_eq THEN
            \* chop off the start
            LET rest == [old_range EXCEPT !.span = Range(subrange.end, old_range.span.end)]
            IN  insert(insert(m, rest.span.end, rest), subrange.end, active)
        ELSE IF ~s_eq /\ e_eq THEN
            \* chop off the end
            LET rest == [old_range EXCEPT !.span = Range(old_range.span.start, subrange.start)]
            IN  insert(insert(m, rest.span.end, rest), subrange.end, active)
        ELSE IF s_eq /\ e_eq THEN
            insert(m, subrange.end, active)
        ELSE
            LET before == AddressRegion(None, Range(old_range.span.start, subrange.start), "Unoccupied")
                after  == AddressRegion(None, Range(subrange.end, old_range.span.end), "Unoccupied")
            IN  insert(insert(insert(m, before.span.end, before), active.span.end, active),
                       after.span.end, after)

\* the result of self.alloc(subrange, backing, kind) on map m
alloc(m, subrange, backing, kind) ==
    LET key == range_next(m, subrange.end)
    IN  IF ~range_some(m, subrange.end) THEN [res |-> "Err", map |-> m]
        ELSE IF alloc_refused(m[key], subrange) THEN [res |-> "Err", map |-> m]
        ELSE [res |-> "Ok", map |-> alloc_split(remove(m, key), m[key], subrange, backing, kind)]

(***************************************************************************)
(* AddressMap::free                                                        *)
(***************************************************************************)
\* free_refused without the comparison of the span starts
free_refused_no_start(curr_range, range) ==
    \/ curr_range.span.end # range.end
    \/ curr_range.region = None

\* the guard of the first match arm: the call is refused
free_refused(curr_range, range) ==
    \/ curr_range.span.start # range.start
    \/ curr_range.span.end # range.end
    \/ curr_range.region = None

\* free without its second while loop
coalesce_after_skip(m, range) == [res |-> "Ok", map |-> m, range |-> range]

\* the second while loop: absorb the unoccupied regions that follow the span
RECURSIVE coalesce_after(_, _)
coalesce_after(m, range) ==
    LET key == range_next(m, offset(range.span.end, 1))
    IN  IF range_some(m, offset(range.span.end, 1)) /\ m[key].region = None
        THEN coalesce_after(remove(m, key), [range EXCEPT !.span.end = m[key].span.end])
        ELSE [res |-> "Ok", map |-> m, range |-> range]

\* free without its first while loop
coalesce_before_skip(m, range) == [res |-> "Ok", map |-> m, range |-> range]

\* the first while loop: absorb the unoccupied regions that precede the span;
\* remove(&range.span.start).unwrap() panics when no region ends there
RECURSIVE coalesce_before(_, _)
coalesce_before(m, range) ==
    LET key == range_next(m, range.span.start)
    IN  IF range_some(m, range.span.start) /\ m[key].region = None
        THEN IF range.span.start \in DOMAIN m
             THEN coalesce_before(remove(m, range.span.start),
                                  [range EXCEPT !.span.start = m[range.span.start].span.start])
             ELSE [res |-> "Panic", map |-> m, range |-> range]
        ELSE [res |-> "Ok", map |-> m, range |-> range]

\* the result of self.free(range) on map m
free(m, range) ==
    LET found == range_next(m, range.end)
    IN  IF ~range_some(m, range.end) THEN [res |-> "Err", ret |-> None, map |-> m]
        ELSE IF free_refused(m[found], range) THEN [res |-> "Err", ret |-> None, map |-> m]
        ELSE IF range.end \notin DOMAIN m THEN [res |-> "Panic", ret |-> None, map |-> m]
        ELSE
            LET b == coalesce_before(remove(m, range.end), m[range.end])
            IN  IF b.res = "Panic" THEN [res |-> "Panic", ret |-> None, map |-> b.map]
                ELSE
                    LET a == coalesce_after(b.map, b.range)
                    IN  [res |-> "Ok",
                         ret |-> a.range.region,
                         map |-> insert(a.map, a.range.span.end, [a.range EXCEPT !.region = None])]

(***************************************************************************)
(* AddressMap::find                                                        *)
(***************************************************************************)
\* the Option<&AddressRegion> returned is the empty set (None) or a singleton
find(m, address) ==
    IF range_some(m, address) THEN {m[range_next(m, address)]} ELSE {}

(***************************************************************************)
(* usize values of the trap path: four 16-bit limbs, most significant      *)
(* first, so that 1 << 63 and 0xFFFFFFC000000000 keep their width          *)
(***************************************************************************)
U64(a, b, c, d) == <<a, b, c, d>>

Lit(n) == <<0, 0, 0, n>>

RECURSIVE BitOr(_, _)
BitOr(x, y) ==
    IF x = 0 THEN y
    ELSE IF y = 0 THEN x
    ELSE (IF (x % 2) + (y % 2) > 0 THEN 1 ELSE 0) + 2 * BitOr(x \div 2, y \div 2)

Or64(x, y) == [i \in 1..4 |-> BitOr(x[i], y[i])]

\* lexicographic x >= y on the limbs
Geq64(x, y) ==
    \/ x = y
    \/ \E i \in 1..4 : x[i] > y[i] /\ \A j \in 1..(i - 1) : x[j] = y[j]

\* x + n modulo 2^64, for 0 <= n < 65536
Add64(x, n) ==
    LET s4 == x[4] + n
        s3 == x[3] + (s4 \div 65536)
        s2 == x[2] + (s3 \div 65536)
        s1 == x[1] + (s2 \div 65536)
    IN  <<s1 % 65536, s2 % 65536, s3 % 65536, s4 % 65536>>

\* usize::max_value()
usize_max == U64(65535, 65535, 65535, 65535)

RECURSIVE BitAnd(_, _)
BitAnd(x, y) ==
    IF x = 0 \/ y = 0 THEN 0
    ELSE (IF (x % 2) + (y % 2) = 2 THEN 1 ELSE 0) + 2 * BitAnd(x \div 2, y \div 2)

\* x & y
And64(x, y) == [i \in 1..4 |-> BitAnd(x[i], y[i])]

\* !x
Not64(x) == [i \in 1..4 |-> 65535 - x[i]]

(***************************************************************************)
(* capabilities.rs: CapabilityRights                                       *)
(***************************************************************************)
\* CapabilityRights::new(value)
CapabilityRights_new(value) == And64(value, Lit(15))

\* is_superset with self and other exchanged
is_superset_exchanged(self, other) == Or64(other, Not64(self)) = usize_max

\* CapabilityRights::is_superset(self, other)
is_superset(self, other) == Or64(self, Not64(other)) = usize_max

\* impl BitOr for CapabilityRights, and BitOrAssign
bitor(self, rhs) == Or64(self, rhs)

\* bitand answering whether the two values have a right in common
bitand_common(self, rhs) == And64(self, rhs) # Lit(0)

\* impl BitAnd for CapabilityRights: the Output is bool
bitand(self, rhs) == And64(self, rhs) = rhs

\* CapabilityRights::READ, WRITE, EXECUTE, GRANT
RightsConstants == {Lit(1), Lit(2), Lit(4), Lit(8)}

\* the largest raw value CapabilityRights::new is given
MaxRights == 16

\* the raw values CapabilityRights::new is given: the small ones, and two
\* with bits set in the upper limbs
RawRights == {Lit(v) : v \in 0..MaxRights} \cup {usize_max, U64(32768, 0, 1, 21)}

\* no comparison made yet
NoRights == [self |-> Lit(0), other |-> Lit(0), done |-> FALSE, res |-> FALSE,
             anded |-> FALSE, and_res |-> FALSE, combined |-> FALSE]

(***************************************************************************)
(* trap.rs: Trap and Trap::from_cause                                      *)
(***************************************************************************)
\* const INTERRUPT_BIT: usize = 1 << 63
INTERRUPT_BIT == U64(32768, 0, 0, 0)

\* the discriminant of each variant of enum Trap (#[repr(usize)])
Discriminant(variant) ==
    CASE variant = "UserSoftwareInterrupt"         -> Or64(INTERRUPT_BIT, Lit(0))
      [] variant = "SupervisorSoftwareInterrupt"   -> Or64(INTERRUPT_BIT, Lit(1))
      [] variant = "MachineSoftwareInterrupt"      -> Or64(INTERRUPT_BIT, Lit(3))
      [] variant = "UserTimerInterrupt"            -> Or64(INTERRUPT_BIT, Lit(4))
      [] variant = "SupervisorTimerInterrupt"      -> Or64(INTERRUPT_BIT, Lit(5))
      [] variant = "MachineTimerInterrupt"         -> Or64(INTERRUPT_BIT, Lit(7))
      [] variant = "UserExternalInterrupt"         -> Or64(INTERRUPT_BIT, Lit(8))
      [] variant = "SupervisorExternalInterrupt"   -> Or64(INTERRUPT_BIT, Lit(9))
      [] variant = "MachineExternalInterrupt"      -> Or64(INTERRUPT_BIT, Lit(11))
      [] variant = "InstructionAddressMisaligned"  -> Lit(0)
      [] variant = "InstructionAccessFault"        -> Lit(1)
      [] variant = "IllegalInstruction"            -> Lit(2)
      [] variant = "Breakpoint"                    -> Lit(3)
      [] variant = "LoadAddressMisaligned"         -> Lit(4)
      [] variant = "LoadAccessFault"               -> Lit(5)
      [] variant = "StoreAddressMisaligned"        -> Lit(6)
      [] variant = "StoreAccessFault"              -> Lit(7)
      [] variant = "UserModeEnvironmentCall"       -> Lit(8)
      [] variant = "SupervisorModeEnvironmentCall" -> Lit(9)
      [] variant = "MachineModeEnvironmentCall"    -> Lit(11)
      [] variant = "InstructionPageFault"          -> Lit(12)
      [] variant = "LoadPageFault"                 -> Lit(13)
      [] variant = "StorePageFault"                -> Lit(15)
      [] variant = "Reserved"                      -> usize_max

\* the match of Trap::from_cause on the raw cause, arm by arm
from_cause_match(cause) ==
    CASE cause = U64(32768, 0, 0, 0)  -> "UserSoftwareInterrupt"
      [] cause = U64(32768, 0, 0, 1)  -> "SupervisorSoftwareInterrupt"
      [] cause = U64(32768, 0, 0, 3)  -> "MachineSoftwareInterrupt"
      [] cause = U64(32768, 0, 0, 4)  -> "UserTimerInterrupt"
      [] cause = U64(32768, 0, 0, 5)  -> "SupervisorTimerInterrupt"
      [] cause = U64(32768, 0, 0, 7)  -> "MachineTimerInterrupt"
      [] cause = U64(32768, 0, 0, 8)  -> "UserExternalInterrupt"
      [] cause = U64(32768, 0, 0, 9)  -> "SupervisorExternalInterrupt"
      [] cause = U64(32768, 0, 0, 11) -> "MachineExternalInterrupt"
      [] cause = U64(0, 0, 0, 0)      -> "InstructionAddressMisaligned"
      [] cause = U64(0, 0, 0, 1)      -> "InstructionAccessFault"
      [] cause = U64(0, 0, 0, 2)      -> "IllegalInstruction"
      [] cause = U64(0, 0, 0, 3)      -> "Breakpoint"
      [] cause = U64(0, 0, 0, 4)      -> "LoadAddressMisaligned"
      [] cause = U64(0, 0, 0, 5)      -> "LoadAccessFault"
      [] cause = U64(0, 0, 0, 6)      -> "StoreAddressMisaligned"
      [] cause = U64(0, 0, 0, 7)      -> "StoreAccessFault"
      [] cause = U64(0, 0, 0, 8)      -> "UserModeEnvironmentCall"
      [] cause = U64(0, 0, 0, 9)      -> "SupervisorModeEnvironmentCall"
      [] cause = U64(0, 0, 0, 11)     -> "MachineModeEnvironmentCall"
      [] cause = U64(0, 0, 0, 12)     -> "InstructionPageFault"
      [] cause = U64(0, 0, 0, 13)     -> "LoadPageFault"
      [] cause = U64(0, 0, 0, 15)     -> "StorePageFault"
      [] OTHER                        -> "Reserved"

\* from_cause with the arms of 12 and 13 exchanged
from_cause_swapped(cause) ==
    IF cause = U64(0, 0, 0, 12) THEN "LoadPageFault"
    ELSE IF cause = U64(0, 0, 0, 13) THEN "InstructionPageFault"
    ELSE from_cause_match(cause)

\* Trap::from_cause
from_cause(cause) == from_cause_match(cause)

(***************************************************************************)
(* The memory the trap path looks at                                       *)
(***************************************************************************)
\* VirtualAddress::new(0xFFFFFFC000000000): the first address of the kernel half
KERNEL_BASE == U64(65535, 65472, 0, 0)

\* VirtualAddress::is_kernel_region
is_kernel_region(a) == Geq64(a, KERNEL_BASE)

\* the 4 KiB page an address lies in
page_of(a) == <<a[1], a[2], a[3], a[4] - (a[4] % 4096)>>

\* the pages of the model: a user page mapped read-write, a user page mapped
\* read-only, a user page that is not mapped, and a page of the kernel half
PageRW == Lit(4096)
PageRO == Lit(8192)
PageUnmapped == Lit(12288)
PageKernel == KERNEL_BASE

\* a further user page, mapped read-only, two pages after PageRO
PageFar == Lit(16384)

TrapAddrs == {PageRW, PageRO, PageUnmapped, PageKernel}

\* the leaf entries the tasks start with: t1 has not touched its pages yet;
\* t2 has one page, read and written before
InitialFlags(t) ==
    IF t = "t1"
    THEN [p \in {PageRW, PageRO, PageFar, PageKernel} |->
            IF p \in {PageRO, PageFar} THEN {"READ"} ELSE {"READ", "WRITE"}]
    ELSE [p \in {PageRW, PageKernel} |->
            IF p = PageRW THEN {"READ", "WRITE", "ACCESSED", "DIRTY"} ELSE {"READ", "WRITE"}]

\* MemoryManager::page_flags(virt): Some(flags) of the leaf mapping virt, or None
mm_page_flags(pf, virt) == IF page_of(virt) \in DOMAIN pf THEN {pf[page_of(virt)]} ELSE {}

\* MemoryManager::modify_page_flags(virt, |f| f | added): false when virt has no leaf
modify_page_flags(pf, virt, added) ==
    IF page_of(virt) \in DOMAIN pf
    THEN [valid |-> TRUE, pf |-> [pf EXCEPT ![page_of(virt)] = @ \cup added]]
    ELSE [valid |-> FALSE, pf |-> pf]

(***************************************************************************)
(* syscall/print.rs: print                                                 *)
(***************************************************************************)
NoAddr == <<>>

\* what print does to the task, to *res_out and to the console
print(state, pf, virt, len, res_out) ==
    LET flags_start   == mm_page_flags(pf, virt)
        flags_end     == mm_page_flags(pf, Add64(virt, len))
        flags_res_out == mm_page_flags(pf, res_out)
        valid_memory  == /\ flags_start # {}
                         /\ flags_end # {}
                         /\ \A fs \in flags_start, fe \in flags_end : "READ" \in fs /\ "READ" \in fe
        valid_res     == flags_res_out # {} /\ \A f \in flags_res_out : "WRITE" \in f
    IN  IF ~valid_res
        THEN [state |-> "Dead", res_at |-> NoAddr, res_val |-> "None", console |-> FALSE]
        ELSE IF is_kernel_region(virt)
        THEN [state |-> state, res_at |-> res_out, res_val |-> "Err", console |-> FALSE]
        ELSE IF ~valid_memory
        THEN [state |-> state, res_at |-> res_out, res_val |-> "Err", console |-> FALSE]
        ELSE [state |-> state, res_at |-> res_out, res_val |-> "Ok", console |-> TRUE]

\* syscall::exit::exit: the task is over
exit(state) == [state |-> "Dead", res_at |-> NoAddr, res_val |-> "None", console |-> FALSE]

\* syscall::read_stdin::read_stdin: a destination in the kernel half or not
\* mapped writable kills the task
read_stdin(state, pf, virt, len) ==
    LET fs == mm_page_flags(pf, virt)
        fe == mm_page_flags(pf, Add64(virt, len))
        ok == /\ ~is_kernel_region(virt)
              /\ fs # {} /\ fe # {}
              /\ \A a \in fs, b \in fe : "WRITE" \in a /\ "WRITE" \in b
    IN  [state |-> IF ok THEN state ELSE "Dead", res_at |-> NoAddr, res_val |-> "None", console |-> FALSE]

\* the n => arm without its assignment to active_task.state
unknown_syscall_logged(state) == [state |-> state, res_at |-> NoAddr, res_val |-> "None", console |-> FALSE]

\* the n => arm of the match on a0: an unknown syscall number
unknown_syscall(state) == [state |-> "Dead", res_at |-> NoAddr, res_val |-> "None", console |-> FALSE]

(***************************************************************************)
(* The arguments trap_handler is entered with                              *)
(***************************************************************************)
Tasks == {"t1", "t2"}

\* the interrupt ids of the PLIC, and the ids isr_entry has a handler for
Irqs == {1, 2}
Registered == {1}

\* the largest cause code tried, with the interrupt bit clear and set
MaxCode == 16

\* the largest syscall number tried in a0
MaxSyscall == 3

TestCauses ==
    {U64(h, 0, 0, l) : h \in {0, 32768}, l \in 0..MaxCode}
        \cup {usize_max, U64(0, 0, 1, 8), U64(32768, 1, 0, 5), U64(16384, 0, 0, 13)}

\* a trap with cause `scause`; `by` tells what raised it: "task" an instruction
\* of the user task running on the hart, "kernel" an instruction of the kernel,
\* "async" an interrupt.  The frame holds the registers a0..a3 and, as gp / fp,
\* all the other registers
TrapArgs(by, scause) ==
    [by |-> by, scause |-> scause, sepc |-> 4096, stval |-> Lit(0),
     a0 |-> 0, a1 |-> Lit(0), a2 |-> 0, a3 |-> Lit(0), gp |-> "gp1", fp |-> "fp1"]

PageFaultCauses == {Lit(12), Lit(13), Lit(15)}

\* the causes the ISA gives to synchronous exceptions
ExceptionCauses == {Lit(n) : n \in (0..9) \cup {11, 12, 13, 15}}

\* ecall from U-mode is raised by the task and ecall from S-mode by the kernel;
\* the syscall arguments matter to print and read_stdin only; a cause that is
\* no exception of the ISA is raised by no instruction
TrapInputs ==
    {[TrapArgs("task", Lit(8)) EXCEPT !.a0 = n] : n \in (0..MaxSyscall) \ {1, 2}}
    \cup {[TrapArgs("task", Lit(8)) EXCEPT !.a0 = 1, !.a1 = v, !.a2 = l, !.a3 = r] :
            v \in TrapAddrs, l \in {8, 4096}, r \in TrapAddrs}
    \cup {[TrapArgs("task", Lit(8)) EXCEPT !.a0 = 1, !.a1 = PageRO, !.a2 = 8192, !.a3 = PageRW]}
    \cup {[TrapArgs("task", Lit(8)) EXCEPT !.a0 = 2, !.a1 = v, !.a2 = l] : v \in TrapAddrs, l \in {8, 4096}}
    \cup {[TrapArgs(by, c) EXCEPT !.stval = v] : by \in {"task", "kernel"}, c \in PageFaultCauses, v \in TrapAddrs}
    \cup {TrapArgs("task", c) : c \in ExceptionCauses \ (PageFaultCauses \cup {Lit(8), Lit(9)})}
    \cup {TrapArgs("kernel", c) : c \in ExceptionCauses \ (PageFaultCauses \cup {Lit(8)})}
    \cup {TrapArgs("async", c) : c \in TestCauses \ ExceptionCauses}

(***************************************************************************)
(* trap.rs: trap_handler                                                   *)
(***************************************************************************)
NoTrap == [op |-> "none"]

InitialContext == [pc |-> 0, gp_regs |-> "gp0", fp_regs |-> "fp0"]

\* Context { pc, gp_regs: regs.registers, fp_regs: regs.fp_registers }
Context(pc, in) == [pc |-> pc, gp_regs |-> in.gp, fp_regs |-> in.fp]

\* what one run of trap_handler is seen to have done
Observed(in, trap_kind, events, ret, sys) ==
    [op |-> "trap", in |-> in, kind |-> trap_kind, active |-> current, events |-> events, ret |-> ret,
     res_at |-> sys.res_at, res_val |-> sys.res_val, console |-> sys.console,
     pre_state |-> task_state, pre_context |-> context, pre_flags |-> page_flags, pre_plic |-> plic]

NoSys == [res_at |-> NoAddr, res_val |-> "None", console |-> FALSE]

\* SCHEDULER.schedule(): the hart goes on with some task that is not dead, or idles
schedule == current' \in {t \in Tasks : task_state'[t] # "Dead"} \cup {None}

\* panic!(): nothing of the kernel runs after it
Panic(in, trap_kind, events) ==
    /\ panicked' = TRUE
    /\ trap' = Observed(in, trap_kind, events, "panic", NoSys)
    /\ UNCHANGED <<task_state, context, page_flags, current, plic>>

\* the timer arm without the assignment to the context of the active task
TimerArm_no_save(in, trap_kind) ==
    /\ context' = context
    /\ trap' = Observed(in, trap_kind, <<"schedule">>, "scheduled", NoSys)
    /\ UNCHANGED <<task_state, page_flags, plic, panicked>>
    /\ schedule

\* the timer arm with the guard of the task lock bound to a variable that
\* lives until the end of the arm: the Scheduler is entered with the lock held
TimerArm_guard_held(in, trap_kind) ==
    /\ IF current # None
       THEN /\ context' = [context EXCEPT ![current] = Context(in.sepc, in)]
            /\ trap' = Observed(in, trap_kind, <<"lock", "context", "schedule">>, "scheduled", NoSys)
       ELSE /\ context' = context
            /\ trap' = Observed(in, trap_kind, <<"schedule">>, "scheduled", NoSys)
    /\ UNCHANGED <<task_state, page_flags, plic, panicked>>
    /\ schedule

\* Trap::SupervisorTimerInterrupt
TimerArm(in, trap_kind) ==
    /\ IF current # None
       THEN /\ context' = [context EXCEPT ![current] = Context(in.sepc, in)]
            /\ trap' = Observed(in, trap_kind, <<"lock", "context", "unlock", "schedule">>, "scheduled", NoSys)
       ELSE /\ context' = context
            /\ trap' = Observed(in, trap_kind, <<"schedule">>, "scheduled", NoSys)
    /\ UNCHANGED <<task_state, page_flags, plic, panicked>>
    /\ schedule

\* the syscall arm saving the pc of the call instruction itself, as the timer
\* arm does
SyscallArm_pc_sepc(in, trap_kind) ==
    IF current = None
    THEN Panic(in, trap_kind, <<>>)
    ELSE
        LET st  == task_state[current]
            pf  == page_flags[current]
            sys == CASE in.a0 = 0 -> exit(st)
                     [] in.a0 = 1 -> print(st, pf, in.a1, in.a2, in.a3)
                     [] in.a0 = 2 -> read_stdin(st, pf, in.a1, in.a2)
                     [] OTHER     -> unknown_syscall(st)
        IN  /\ task_state' = [task_state EXCEPT ![current] = sys.state]
            /\ context' = [context EXCEPT ![current] = Context(in.sepc, in)]
            /\ trap' = Observed(in, trap_kind, <<"lock", "handler", "context", "unlock", "schedule">>,
                                "scheduled", sys)
            /\ UNCHANGED <<page_flags, plic, panicked>>
            /\ schedule

\* Trap::UserModeEnvironmentCall
SyscallArm(in, trap_kind) ==
    IF current = None
    THEN Panic(in, trap_kind, <<>>)   \* TASKS.active_on_cpu().unwrap()
    ELSE
        LET st  == task_state[current]
            pf  == page_flags[current]
            sys == CASE in.a0 = 0 -> exit(st)
                     [] in.a0 = 1 -> print(st, pf, in.a1, in.a2, in.a3)
                     [] in.a0 = 2 -> read_stdin(st, pf, in.a1, in.a2)
                     [] OTHER     -> unknown_syscall(st)
        IN  /\ task_state' = [task_state EXCEPT ![current] = sys.state]
            /\ context' = [context EXCEPT ![current] = Context(in.sepc + 4, in)]
            /\ trap' = Observed(in, trap_kind, <<"lock", "handler", "context", "unlock", "schedule">>,
                                "scheduled", sys)
            /\ UNCHANGED <<page_flags, plic, panicked>>
            /\ schedule

\* the external-interrupt arm leaving on the error of the callback, before
\* claimed.complete()
ExternalArm_err_returns(in, trap_kind) ==
    /\ IF plic.present /\ plic.pending # {}
       THEN \E claimed \in plic.pending :
                /\ plic' = [plic EXCEPT !.pending = @ \ {claimed}]
                /\ IF claimed \in Registered
                   THEN \/ trap' = Observed(in, trap_kind, <<"claim", "isr_ok", "complete">>, "sepc", NoSys)
                        \/ trap' = Observed(in, trap_kind, <<"claim", "isr_err">>, "sepc", NoSys)
                   ELSE trap' = Observed(in, trap_kind, <<"claim", "complete">>, "sepc", NoSys)
       ELSE /\ plic' = plic
            /\ trap' = Observed(in, trap_kind, <<>>, "sepc", NoSys)
    /\ UNCHANGED <<task_state, context, page_flags, current, panicked>>

\* Trap::SupervisorExternalInterrupt
ExternalArm(in, trap_kind) ==
    /\ IF plic.present /\ plic.pending # {}
       THEN \E claimed \in plic.pending :
                /\ plic' = [plic EXCEPT !.pending = @ \ {claimed}]
                /\ IF claimed \in Registered
                   THEN \E isr \in {"isr_ok", "isr_err"} :
                            trap' = Observed(in, trap_kind, <<"claim", isr, "complete">>, "sepc", NoSys)
                   ELSE trap' = Observed(in, trap_kind, <<"claim", "complete">>, "sepc", NoSys)
       ELSE /\ plic' = plic
            /\ trap' = Observed(in, trap_kind, <<>>, "sepc", NoSys)
    /\ UNCHANGED <<task_state, context, page_flags, current, panicked>>

\* the page-fault arm marking the page dirty on every kind of page fault
PageFaultArm_dirty(in, trap_kind) ==
    IF is_kernel_region(in.stval)
    THEN Panic(in, trap_kind, <<>>)
    ELSE IF current = None
    THEN Panic(in, trap_kind, <<>>)
    ELSE
        LET added == {"ACCESSED", "DIRTY"}
            m     == modify_page_flags(page_flags[current], in.stval, added)
        IN  /\ page_flags' = [page_flags EXCEPT ![current] = m.pf]
            /\ IF m.valid
               THEN /\ trap' = Observed(in, trap_kind, <<"lock", "modify", "sfence", "unlock">>, "sepc", NoSys)
                    /\ UNCHANGED <<task_state, current>>
               ELSE /\ task_state' = [task_state EXCEPT ![current] = "Dead"]
                    /\ trap' = Observed(in, trap_kind, <<"lock", "modify", "kill", "unlock", "schedule">>,
                                        "scheduled", NoSys)
                    /\ schedule
            /\ UNCHANGED <<context, plic, panicked>>

\* the page-fault arm with the result of modify_page_flags ignored: sfence and
\* return to the faulting instruction whether or not the page was mapped
PageFaultArm_resume(in, trap_kind) ==
    IF is_kernel_region(in.stval)
    THEN Panic(in, trap_kind, <<>>)
    ELSE IF current = None
    THEN Panic(in, trap_kind, <<>>)
    ELSE
        LET added == IF trap_kind = "StorePageFault" THEN {"ACCESSED", "DIRTY"} ELSE {"ACCESSED"}
            m     == modify_page_flags(page_flags[current], in.stval, added)
        IN  /\ page_flags' = [page_flags EXCEPT ![current] = m.pf]
            /\ trap' = Observed(in, trap_kind, <<"lock", "modify", "sfence", "unlock">>, "sepc", NoSys)
            /\ UNCHANGED <<task_state, current, context, plic, panicked>>

\* Trap::LoadPageFault | Trap::StorePageFault | Trap::InstructionPageFault
PageFaultArm(in, trap_kind) ==
    IF is_kernel_region(in.stval)
    THEN Panic(in, trap_kind, <<>>)
    ELSE IF current = None
    THEN Panic(in, trap_kind, <<>>)   \* TASKS.active_on_cpu().unwrap()
    ELSE
        LET added == IF trap_kind = "StorePageFault" THEN {"ACCESSED", "DIRTY"} ELSE {"ACCESSED"}
            m     == modify_page_flags(page_flags[current], in.stval, added)
        IN  /\ page_flags' = [page_flags EXCEPT ![current] = m.pf]
            /\ IF m.valid
               THEN /\ trap' = Observed(in, trap_kind, <<"lock", "modify", "sfence", "unlock">>, "sepc", NoSys)
                    /\ UNCHANGED <<task_state, current>>
               ELSE /\ task_state' = [task_state EXCEPT ![current] = "Dead"]
                    /\ trap' = Observed(in, trap_kind, <<"lock", "modify", "kill", "unlock", "schedule">>,
                                        "scheduled", NoSys)
                    /\ schedule
            /\ UNCHANGED <<context, plic, panicked>>

\* trap_handler with a last arm that logs the trap and returns sepc
trap_handler_ignoring(in) ==
    LET trap_kind == from_cause(in.scause)
    IN  CASE trap_kind = "SupervisorTimerInterrupt" -> TimerArm(in, trap_kind)
          [] trap_kind = "UserModeEnvironmentCall" -> SyscallArm(in, trap_kind)
          [] trap_kind = "SupervisorExternalInterrupt" -> ExternalArm(in, trap_kind)
          [] trap_kind \in {"LoadPageFault", "StorePageFault", "InstructionPageFault"} ->
                PageFaultArm(in, trap_kind)
          [] OTHER -> /\ trap' = Observed(in, trap_kind, <<>>, "sepc", NoSys)
                      /\ UNCHANGED <<task_state, context, page_flags, current, plic, panicked>>

\* trap_handler(regs, sepc, scause, stval)
trap_handler(in) ==
    LET trap_kind == from_cause(in.scause)
    IN  CASE trap_kind = "SupervisorTimerInterrupt" -> TimerArm(in, trap_kind)
          [] trap_kind = "UserModeEnvironmentCall" -> SyscallArm(in, trap_kind)
          [] trap_kind = "SupervisorExternalInterrupt" -> ExternalArm(in, trap_kind)
          [] trap_kind \in {"LoadPageFault", "StorePageFault", "InstructionPageFault"} ->
                PageFaultArm(in, trap_kind)
          [] OTHER -> Panic(in, trap_kind, <<>>)

(***************************************************************************)
(* mem/paging/manager.rs: PageTableManager.  An operation is the list of   *)
(* its steps in program order.  The hart executes one step at a time, and  *)
(* between two steps it takes a pending interrupt when sstatus.SIE is set. *)
(***************************************************************************)
\* the user pages the operations are called with
PtmPages == {4096, 8192}

\* the Permissions values the operations are called with
PtmPerms == {{"READ"}, {"READ", "WRITE"}}

\* the number of top-level entries start_idx..512 of the kernel half
KernelEntries == 2

\* the number of pages the physical allocator has at the start
PhysPages == 2

\* PageTableManager::alloc_virtual
alloc_virtual == <<"InterruptDisabler::new", "new_phys_page", "map", "sfence", "drop">>

\* PageTableManager::alloc_virtual_with_data
alloc_virtual_with_data ==
    <<"InterruptDisabler::new", "new_phys_page", "map", "write_data", "sfence", "drop">>

\* PageTableManager::map_direct
map_direct == <<"InterruptDisabler::new", "map", "sfence", "drop">>

\* PageTableManager::modify_page_permissions
modify_page_permissions == <<"entry_mut", "set_permissions">>

\* PageTableManager::copy_kernel_pages: one assignment per entry of the kernel half
copy_kernel_pages == [i \in 1..KernelEntries |-> "copy_entry"]

PtmOps == {"alloc_virtual", "alloc_virtual_with_data", "map_direct", "modify_page_permissions",
           "copy_kernel_pages"}

Steps(name) ==
    CASE name = "alloc_virtual"           -> alloc_virtual
      [] name = "alloc_virtual_with_data" -> alloc_virtual_with_data
      [] name = "map_direct"              -> map_direct
      [] name = "modify_page_permissions" -> modify_page_permissions
      [] name = "copy_kernel_pages"       -> copy_kernel_pages
      [] OTHER                            -> <<>>

\* the steps that write the page table
MutatingSteps == {"map", "set_permissions", "copy_entry"}

\* an entry of the table that is no leaf
NotValid == [perms |-> {}, content |-> "NotValid"]

\* translations: of user pages, and of the kernel half
NoneStale == [user |-> {}, kernel |-> FALSE]

\* no call in progress
PtmIdle == [name |-> "none", virt |-> 0, perms |-> {}, data |-> "none",
            pc |-> 0, saved |-> FALSE, touched |-> NoneStale, irq_at |-> 0]

\* the step the call in progress executes next, "return" after its last one
NextStep ==
    IF ptm.name = "none" THEN "none"
    ELSE IF ptm.pc \in DOMAIN Steps(ptm.name) THEN Steps(ptm.name)[ptm.pc]
    ELSE "return"

\* the range calls
RangeOps == {"alloc_virtual_range", "alloc_virtual_range_with_data"}

\* the page-aligned sizes and the lengths of the data slices they are given
RangeSizes == {4096, 8192}

DataLens == {0, 8, 4096, 4104}

\* data.chunks(4096).count()
chunks(len) == (len + 4095) \div 4096

\* the content of the idx-th chunk of data
Chunk(idx) == IF idx = 0 THEN "chunk0" ELSE "chunk1"

\* PageTableManager::alloc_virtual_range: for idx in 0..size / 4096
alloc_virtual_range(size) == size \div 4096

\* PageTableManager::alloc_virtual_range_with_data:
\* for (idx, data) in (0..size / 4096).zip(data.chunks(4096))
alloc_virtual_range_with_data(size, len) ==
    IF size \div 4096 <= chunks(len) THEN size \div 4096 ELSE chunks(len)

\* the number of iterations the for loop of the range call c makes
Iterations(c) ==
    IF c.name = "alloc_virtual_range" THEN alloc_virtual_range(c.size)
    ELSE alloc_virtual_range_with_data(c.size, c.len)

\* no range call in progress
NoRange == [name |-> "none", start |-> 0, size |-> 0, perms |-> {}, len |-> 0, idx |-> 0,
            done |-> FALSE, phys |-> 0]

\* mem::sfence(Some(vaddr), None) invalidates the translations of vaddr,
\* mem::sfence(None, None) all of them
\* (the Option is the empty set or a singleton)
sfence(st, vaddr) == IF vaddr = {} THEN NoneStale ELSE [st EXCEPT !.user = @ \ vaddr]

(***************************************************************************)
(* trap.rs: TrapFrame and stvec_trap_shim.  A machine word is              *)
(* <<tag, index, offset>>: the content register x_i or f_i had when the    *)
(* trap was taken is <<"x", i, 0>> or <<"f", i, 0>>, an address is a base   *)
(* word with a byte offset, and an immediate n is <<"imm", 0, n>>.          *)
(***************************************************************************)
\* struct Registers, in field order
Registers ==
    <<"ra", "sp", "gp", "tp", "t0", "t1", "t2", "s0", "s1",
      "a0", "a1", "a2", "a3", "a4", "a5", "a6", "a7",
      "s2", "s3", "s4", "s5", "s6", "s7", "s8", "s9", "s10", "s11",
      "t3", "t4", "t5", "t6">>

\* struct FloatingPointRegisters, in field order
FloatingPointRegisters ==
    <<"f0", "f1", "f2", "f3", "f4", "f5", "f6", "f7", "f8", "f9", "f10", "f11", "f12", "f13", "f14", "f15",
      "f16", "f17", "f18", "f19", "f20", "f21", "f22", "f23", "f24", "f25", "f26", "f27", "f28", "f29",
      "f30", "f31", "fscr">>

\* size_of::<usize>()
WordBytes == 8

\* #[repr(C)] struct TrapFrame { registers, fp_registers }: the byte offset
\* of every field, and the size of the struct
TrapFrame ==
    [registers    |-> [k \in DOMAIN Registers |-> WordBytes * (k - 1)],
     fp_registers |-> [k \in DOMAIN FloatingPointRegisters |->
                          WordBytes * Len(Registers) + WordBytes * (k - 1)],
     size         |-> WordBytes * (Len(Registers) + Len(FloatingPointRegisters))]

Word(tag, idx) == <<tag, idx, 0>>

Imm(n) == <<"imm", 0, n>>

Uninit == Word("uninit", 0)

AddImm(v, n) == <<v[1], v[2], v[3] + n>>

Load(mem, a) == IF a \in DOMAIN mem THEN mem[a] ELSE Uninit

Store(mem, a, v) == [b \in DOMAIN mem \cup {a} |-> IF b = a THEN v ELSE mem[b]]

\* the body of stvec_trap_shim, one instruction per line of the asm! block;
\* registers are given by number (sp = x2, tp = x4, t0 = x5, s0 = x8, a0 = x10)
stvec_trap_shim_asm == <<
    <<"csrci", "sstatus", 2>>,        \*   1: csrci sstatus, 2
    <<"csrrw", 8, "sscratch", 8>>,    \*   2: csrrw s0, sscratch, s0
    <<"sd", 2, 16, 8>>,               \*   3: sd sp, 16(s0)
    <<"sd", 4, 24, 8>>,               \*   4: sd tp, 24(s0)
    <<"ld", 2, 0, 8>>,                \*   5: ld sp, 0(s0)
    <<"ld", 4, 8, 8>>,                \*   6: ld tp, 8(s0)
    <<"addi", 2, 2, -512>>,           \*   7: addi sp, sp, -512
    <<"sd", 1, 0, 2>>,                \*   8: sd x1, 0(sp)
    <<"ld", 1, 16, 8>>,               \*   9: ld x1, 16(s0)
    <<"sd", 1, 8, 2>>,                \*  10: sd x1, 8(sp)
    <<"sd", 3, 16, 2>>,               \*  11: sd x3, 16(sp)
    <<"ld", 1, 24, 8>>,               \*  12: ld x1, 24(s0)
    <<"sd", 1, 24, 2>>,               \*  13: sd x1, 24(sp)
    <<"sd", 5, 32, 2>>,               \*  14: sd x5, 32(sp)
    <<"sd", 6, 40, 2>>,               \*  15: sd x6, 40(sp)
    <<"sd", 7, 48, 2>>,               \*  16: sd x7, 48(sp)
    <<"csrr", 1, "sscratch">>,        \*  17: csrr x1, sscratch
    <<"sd", 1, 56, 2>>,               \*  18: sd x1, 56(sp)
    <<"ld", 1, 0, 2>>,                \*  19: ld x1, 0(sp)
    <<"csrw", "sscratch", 8>>,        \*  20: csrw sscratch, s0
    <<"sd", 9, 64, 2>>,               \*  21: sd x9, 64(sp)
    <<"sd", 10, 72, 2>>,              \*  22: sd x10, 72(sp)
    <<"sd", 11, 80, 2>>,              \*  23: sd x11, 80(sp)
    <<"sd", 12, 88, 2>>,              \*  24: sd x12, 88(sp)
    <<"sd", 13, 96, 2>>,              \*  25: sd x13, 96(sp)
    <<"sd", 14, 104, 2>>,             \*  26: sd x14, 104(sp)
    <<"sd", 15, 112, 2>>,             \*  27: sd x15, 112(sp)
    <<"sd", 16, 120, 2>>,             \*  28: sd x16, 120(sp)
    <<"sd", 17, 128, 2>>,             \*  29: sd x17, 128(sp)
    <<"sd", 18, 136, 2>>,             \*  30: sd x18, 136(sp)
    <<"sd", 19, 144, 2>>,             \*  31: sd x19, 144(sp)
    <<"sd", 20, 152, 2>>,             \*  32: sd x20, 152(sp)
    <<"sd", 21, 160, 2>>,             \*  33: sd x21, 160(sp)
    <<"sd", 22, 168, 2>>,             \*  34: sd x22, 168(sp)
    <<"sd", 23, 176, 2>>,             \*  35: sd x23, 176(sp)
    <<"sd", 24, 184, 2>>,             \*  36: sd x24, 184(sp)
    <<"sd", 25, 192, 2>>,             \*  37: sd x25, 192(sp)
    <<"sd", 26, 200, 2>>,             \*  38: sd x26, 200(sp)
    <<"sd", 27, 208, 2>>,             \*  39: sd x27, 208(sp)
    <<"sd", 28, 216, 2>>,             \*  40: sd x28, 216(sp)
    <<"sd", 29, 224, 2>>,             \*  41: sd x29, 224(sp)
    <<"sd", 30, 232, 2>>,             \*  42: sd x30, 232(sp)
    <<"sd", 31, 240, 2>>,             \*  43: sd x31, 240(sp)
    <<"fsd", 0, 248, 2>>,             \*  44: fsd f0, 248(sp)
    <<"fsd", 1, 256, 2>>,             \*  45: fsd f1, 256(sp)
    <<"fsd", 2, 264, 2>>,             \*  46: fsd f2, 264(sp)
    <<"fsd", 3, 272, 2>>,             \*  47: fsd f3, 272(sp)
    <<"fsd", 4, 280, 2>>,             \*  48: fsd f4, 280(sp)
    <<"fsd", 5, 288, 2>>,             \*  49: fsd f5, 288(sp)
    <<"fsd", 6, 296, 2>>,             \*  50: fsd f6, 296(sp)
    <<"fsd", 7, 304, 2>>,             \*  51: fsd f7, 304(sp)
    <<"fsd", 8, 312, 2>>,             \*  52: fsd f8, 312(sp)
    <<"fsd", 9, 320, 2>>,             \*  53: fsd f9, 320(sp)
    <<"fsd", 10, 328, 2>>,            \*  54: fsd f10, 328(sp)
    <<"fsd", 11, 336, 2>>,            \*  55: fsd f11, 336(sp)
    <<"fsd", 12, 344, 2>>,            \*  56: fsd f12, 344(sp)
    <<"fsd", 13, 352, 2>>,            \*  57: fsd f13, 352(sp)
    <<"fsd", 14, 360, 2>>,            \*  58: fsd f14, 360(sp)
    <<"fsd", 15, 368, 2>>,            \*  59: fsd f15, 368(sp)
    <<"fsd", 16, 376, 2>>,            \*  60: fsd f16, 376(sp)
    <<"fsd", 17, 384, 2>>,            \*  61: fsd f17, 384(sp)
    <<"fsd", 18, 392, 2>>,            \*  62: fsd f18, 392(sp)
    <<"fsd", 19, 400, 2>>,            \*  63: fsd f19, 400(sp)
    <<"fsd", 20, 408, 2>>,            \*  64: fsd f20, 408(sp)
    <<"fsd", 21, 416, 2>>,            \*  65: fsd f21, 416(sp)
    <<"fsd", 22, 424, 2>>,            \*  66: fsd f22, 424(sp)
    <<"fsd", 23, 432, 2>>,            \*  67: fsd f23, 432(sp)
    <<"fsd", 24, 440, 2>>,            \*  68: fsd f24, 440(sp)
    <<"fsd", 25, 448, 2>>,            \*  69: fsd f25, 448(sp)
    <<"fsd", 26, 456, 2>>,            \*  70: fsd f26, 456(sp)
    <<"fsd", 27, 464, 2>>,            \*  71: fsd f27, 464(sp)
    <<"fsd", 28, 472, 2>>,            \*  72: fsd f28, 472(sp)
    <<"fsd", 29, 480, 2>>,            \*  73: fsd f29, 480(sp)
    <<"fsd", 30, 488, 2>>,            \*  74: fsd f30, 488(sp)
    <<"fsd", 31, 496, 2>>,            \*  75: fsd f31, 496(sp)
    <<"frcsr", 5>>,                   \*  76: frcsr t0
    <<"sd", 5, 504, 2>>,              \*  77: sd t0, 504(sp)
    <<"mv", 10, 2>>,                  \*  78: mv a0, sp
    <<"csrr", 11, "sepc">>,           \*  79: csrr a1, sepc
    <<"csrr", 12, "scause">>,         \*  80: csrr a2, scause
    <<"csrr", 13, "stval">>,          \*  81: csrr a3, stval
    <<"li", 8, 32>>,                  \*  82: li s0, 1 << 5
    <<"csrs", "sstatus", 8>>,         \*  83: csrs sstatus, s0
    <<"call", "trap_handler">>,       \*  84: call trap_handler
    <<"csrw", "sepc", 10>>,           \*  85: csrw sepc, a0
    <<"ld", 1, 0, 2>>,                \*  86: ld x1, 0(sp)
    <<"ld", 3, 16, 2>>,               \*  87: ld x3, 16(sp)
    <<"ld", 4, 24, 2>>,               \*  88: ld x4, 24(sp)
    <<"ld", 5, 32, 2>>,               \*  89: ld x5, 32(sp)
    <<"ld", 6, 40, 2>>,               \*  90: ld x6, 40(sp)
    <<"ld", 7, 48, 2>>,               \*  91: ld x7, 48(sp)
    <<"ld", 8, 56, 2>>,               \*  92: ld x8, 56(sp)
    <<"ld", 9, 64, 2>>,               \*  93: ld x9, 64(sp)
    <<"ld", 10, 72, 2>>,              \*  94: ld x10, 72(sp)
    <<"ld", 11, 80, 2>>,              \*  95: ld x11, 80(sp)
    <<"ld", 12, 88, 2>>,              \*  96: ld x12, 88(sp)
    <<"ld", 13, 96, 2>>,              \*  97: ld x13, 96(sp)
    <<"ld", 14, 104, 2>>,             \*  98: ld x14, 104(sp)
    <<"ld", 15, 112, 2>>,             \*  99: ld x15, 112(sp)
    <<"ld", 16, 120, 2>>,             \* 100: ld x16, 120(sp)
    <<"ld", 17, 128, 2>>,             \* 101: ld x17, 128(sp)
    <<"ld", 18, 136, 2>>,             \* 102: ld x18, 136(sp)
    <<"ld", 19, 144, 2>>,             \* 103: ld x19, 144(sp)
    <<"ld", 20, 152, 2>>,             \* 104: ld x20, 152(sp)
    <<"ld", 21, 160, 2>>,             \* 105: ld x21, 160(sp)
    <<"ld", 22, 168, 2>>,             \* 106: ld x22, 168(sp)
    <<"ld", 23, 176, 2>>,             \* 107: ld x23, 176(sp)
    <<"ld", 24, 184, 2>>,             \* 108: ld x24, 184(sp)
    <<"ld", 25, 192, 2>>,             \* 109: ld x25, 192(sp)
    <<"ld", 26, 200, 2>>,             \* 110: ld x26, 200(sp)
    <<"ld", 27, 208, 2>>,             \* 111: ld x27, 208(sp)
    <<"ld", 28, 216, 2>>,             \* 112: ld x28, 216(sp)
    <<"ld", 29, 224, 2>>,             \* 113: ld x29, 224(sp)
    <<"ld", 30, 232, 2>>,             \* 114: ld x30, 232(sp)
    <<"ld", 31, 240, 2>>,             \* 115: ld x31, 240(sp)
    <<"sc.d", 0, 0, 0, 2>>,           \* 116: sc.d zero, zero, 0(sp)
    <<"csrr", 2, "sscratch">>,        \* 117: csrr sp, sscratch
    <<"ld", 2, 16, 2>>,               \* 118: ld sp, 16(sp)
    <<"sret">>                        \* 119: sret
>>

\* the shim storing tp as it is after the switch to the kernel's tp, in place
\* of the tp saved in the scratch area
stvec_trap_shim_kernel_tp == [stvec_trap_shim_asm EXCEPT ![13] = <<"sd", 4, 24, 2>>]

\* stvec_trap_shim
stvec_trap_shim == stvec_trap_shim_asm

\* the caller-saved registers of the calling convention of extern "C":
\* ra, t0-t2, a0-a7, t3-t6, and ft0-ft7, fa0-fa7, ft8-ft11
CallerSavedX == {1} \cup (5..7) \cup (10..17) \cup (28..31)

CallerSavedF == (0..7) \cup (10..17) \cup (28..31)

\* the bits set in a small immediate
BitsOfInt(n) == {i \in 0..15 : (n \div (2 ^ i)) % 2 = 1}

\* sstatus.SIE and sstatus.SPIE
SIE == 1
SPIE == 5

XReg(h, r) == IF r = 0 THEN Imm(0) ELSE h.x[r]

SetX(h, rd, v) == IF rd = 0 THEN h ELSE [h EXCEPT !.x[rd] = v]

Csr(h, name) ==
    CASE name = "sscratch" -> h.sscratch
      [] name = "sepc"     -> h.sepc
      [] name = "scause"   -> h.scause
      [] name = "stval"    -> h.stval

SetCsr(h, name, v) ==
    CASE name = "sscratch" -> [h EXCEPT !.sscratch = v]
      [] name = "sepc"     -> [h EXCEPT !.sepc = v]
      [] name = "scause"   -> [h EXCEPT !.scause = v]
      [] name = "stval"    -> [h EXCEPT !.stval = v]

\* the hart after one instruction other than call and sret.  sc.d finds no
\* reservation of the hart on the kernel stack: it stores nothing, and its
\* result goes to x0
Exec(h, ins) ==
    LET op == ins[1]
    IN  CASE op = "sd"    -> [h EXCEPT !.mem = Store(h.mem, AddImm(XReg(h, ins[4]), ins[3]), XReg(h, ins[2]))]
          [] op = "fsd"   -> [h EXCEPT !.mem = Store(h.mem, AddImm(XReg(h, ins[4]), ins[3]), h.f[ins[2]])]
          [] op = "ld"    -> LET a == AddImm(XReg(h, ins[4]), ins[3])
                             IN  [SetX(h, ins[2], Load(h.mem, a)) EXCEPT !.loads = @ \cup {<<"x", ins[2], a>>}]
          [] op = "addi"  -> SetX(h, ins[2], AddImm(XReg(h, ins[3]), ins[4]))
          [] op = "mv"    -> SetX(h, ins[2], XReg(h, ins[3]))
          [] op = "li"    -> SetX(h, ins[2], Imm(ins[3]))
          [] op = "csrr"  -> SetX(h, ins[2], Csr(h, ins[3]))
          [] op = "csrw"  -> SetCsr(h, ins[2], XReg(h, ins[3]))
          [] op = "csrrw" -> SetX(SetCsr(h, ins[3], XReg(h, ins[4])), ins[2], Csr(h, ins[3]))
          [] op = "csrci" -> [h EXCEPT !.sstatus = @ \ BitsOfInt(ins[3])]
          [] op = "csrs"  -> [h EXCEPT !.sstatus = @ \cup BitsOfInt(XReg(h, ins[3])[3])]
          [] op = "frcsr" -> SetX(h, ins[2], h.fcsr)
          [] op = "sc.d"  -> h

\* a task running on the hart: sscratch points to the scratch area of the
\* hart, which holds the kernel's sp at offset 0 and the kernel's tp at 8
Hart ==
    [x        |-> [i \in 1..31 |-> Word("x", i)],
     f        |-> [i \in 0..31 |-> Word("f", i)],
     fcsr     |-> Word("fcsr", 0),
     sscratch |-> Word("scratch", 0),
     sepc     |-> Uninit,
     scause   |-> Uninit,
     stval    |-> Uninit,
     sstatus  |-> {SIE},
     mem      |-> (Word("scratch", 0) :> Word("kernel_sp", 0)) @@ (AddImm(Word("scratch", 0), 8) :> Word("kernel_tp", 0)),
     mode     |-> "task",
     pc       |-> 0,
     frame    |-> Uninit,
     ret      |-> Uninit,
     loads    |-> {}]

\* what trap_handler writes through regs: nothing, or a result in registers.a0
FrameWrites == {"none", "a0"}

(***************************************************************************)
(* The calls.  The caller makes one call at a time: a call runs to its     *)
(* return (or panic), `last` and `pre` hold what the caller then sees, and *)
(* Return hands control back before the next call is made.                 *)
(***************************************************************************)
Idle == [op |-> "none", range |-> userspace_range, backing |-> None, kind |-> "Unoccupied",
         res |-> "Ok", ret |-> None, found |-> {}]

KernelInit ==
    /\ map = new
    /\ pre = new
    /\ last = [Idle EXCEPT !.op = "new"]
    /\ task_state = [t \in Tasks |-> "Running"]
    /\ context = [t \in Tasks |-> InitialContext]
    /\ page_flags = [t \in Tasks |-> InitialFlags(t)]
    /\ current = None
    /\ plic = [present |-> FALSE, pending |-> {}]
    /\ trap = NoTrap
    /\ panicked = FALSE
    /\ table = [p \in PtmPages |-> NotValid]
    /\ kernel_entries = [i \in 1..KernelEntries |-> "empty"]
    /\ sie = TRUE
    /\ stale = NoneStale
    /\ phys_free = PhysPages
    /\ ptm = PtmIdle
    /\ range_call = NoRange

Init == KernelInit /\ rights = NoRights /\ hart = Hart

\* the caller asks for a region while it holds fewer than MaxOccupied of them
AllocCall ==
    /\ ~panicked
    /\ last = Idle
    /\ Cardinality({k \in DOMAIN map : map[k].region # None}) < MaxOccupied
    /\ \E s \in Addrs, e \in Addrs, backing \in Backings, kind \in AllocKinds :
        /\ s < e
        /\ LET r == alloc(map, Range(s, e), backing, kind)
           IN  /\ map' = r.map
               /\ last' = [Idle EXCEPT !.op = "alloc", !.range = Range(s, e), !.backing = backing,
                                        !.kind = kind, !.res = r.res]
    /\ pre' = map
    /\ UNCHANGED <<panicked, trapvars, restvars>>

FreeCall ==
    /\ ~panicked
    /\ last = Idle
    /\ \E s \in Addrs, e \in Addrs :
        /\ s < e
        /\ LET r == free(map, Range(s, e))
           IN  /\ map' = r.map
               /\ last' = [Idle EXCEPT !.op = "free", !.range = Range(s, e), !.res = r.res, !.ret = r.ret]
               /\ panicked' = (r.res = "Panic")
    /\ pre' = map
    /\ UNCHANGED <<trapvars, restvars>>

FindCall ==
    /\ ~panicked
    /\ last = Idle
    /\ \E a \in Addrs :
        last' = [Idle EXCEPT !.op = "find", !.range = Range(a, a), !.found = find(map, a)]
    /\ pre' = map
    /\ UNCHANGED <<map, panicked, trapvars, restvars>>

Return ==
    /\ ~panicked
    /\ last # Idle
    /\ last' = Idle
    /\ pre' = map
    /\ UNCHANGED <<map, panicked, trapvars, restvars>>

Next == AllocCall \/ FreeCall \/ FindCall \/ Return

Spec == Init /\ [][Next]_vars

(***************************************************************************)
(* The traps of one hart.  A trap is handled to its end (return to the     *)
(* trampoline, hand-over to the Scheduler, or panic) before the next one   *)
(* is taken: the trampoline enters trap_handler with interrupts disabled.  *)
(***************************************************************************)
\* a trap raised by the task is taken while a task runs on the hart
TrapCall ==
    /\ ~panicked
    /\ trap = NoTrap
    /\ \E in \in TrapInputs :
        /\ in.by = "task" => current # None
        /\ trap_handler(in)
    /\ UNCHANGED <<amvars, restvars>>

\* the trampoline (or the Scheduler) resumes a task
TrapReturn ==
    /\ ~panicked
    /\ trap # NoTrap
    /\ trap' = NoTrap
    /\ UNCHANGED <<amvars, restvars, task_state, context, page_flags, current, plic, panicked>>

\* platform setup registers the PLIC
PlicSetup ==
    /\ ~panicked
    /\ trap = NoTrap
    /\ ~plic.present
    /\ plic' = [plic EXCEPT !.present = TRUE]
    /\ UNCHANGED <<amvars, restvars, task_state, context, page_flags, current, trap, panicked>>

\* a device raises an interrupt line
DeviceInterrupt ==
    /\ ~panicked
    /\ trap = NoTrap
    /\ plic.present
    /\ plic.pending = {}
    /\ \E irq \in Irqs : plic' = [plic EXCEPT !.pending = {irq}]
    /\ UNCHANGED <<amvars, restvars, task_state, context, page_flags, current, trap, panicked>>

TrapNext == TrapCall \/ TrapReturn \/ PlicSetup \/ DeviceInterrupt

TrapSpec == Init /\ [][TrapNext]_vars

(***************************************************************************)
(* The PageTableManager on one hart: a call runs step by step to its       *)
(* return.  The kernel code around the calls runs with interrupts enabled  *)
(* or disabled, and the timer interrupts the hart whenever SIE allows it.  *)
(***************************************************************************)
\* a page is mapped once: the mapping calls are given pages without a leaf
PtmCall ==
    /\ ~panicked
    /\ ptm.name = "none"
    /\ range_call.name = "none"
    /\ \/ \E name \in {"alloc_virtual", "map_direct"}, virt \in PtmPages, perms \in PtmPerms :
            /\ table[virt] = NotValid
            /\ ptm' = [PtmIdle EXCEPT !.name = name, !.virt = virt, !.perms = perms, !.pc = 1]
       \/ \E virt \in PtmPages, perms \in PtmPerms :
            /\ table[virt] = NotValid
            /\ ptm' = [PtmIdle EXCEPT !.name = "alloc_virtual_with_data", !.virt = virt, !.perms = perms,
                                       !.data = "data", !.pc = 1]
       \/ \E virt \in PtmPages, perms \in PtmPerms :
            ptm' = [PtmIdle EXCEPT !.name = "modify_page_permissions", !.virt = virt, !.perms = perms, !.pc = 1]
       \/ ptm' = [PtmIdle EXCEPT !.name = "copy_kernel_pages", !.pc = 1]
    /\ UNCHANGED <<amvars, trapvars, rights, hart, range_call, panicked, table, kernel_entries, sie, stale, phys_free>>

\* let _disabler = InterruptDisabler::new()
Disable ==
    /\ ~panicked
    /\ NextStep = "InterruptDisabler::new"
    /\ sie' = FALSE
    /\ ptm' = [ptm EXCEPT !.pc = @ + 1, !.saved = sie]
    /\ UNCHANGED <<amvars, trapvars, rights, hart, range_call, panicked, table, kernel_entries, stale, phys_free>>

\* Self::new_phys_page(): alloc().expect("we oom, rip")
NewPhysPage ==
    /\ ~panicked
    /\ NextStep = "new_phys_page"
    /\ IF phys_free = 0
       THEN panicked' = TRUE /\ UNCHANGED <<phys_free, ptm>>
       ELSE phys_free' = phys_free - 1 /\ ptm' = [ptm EXCEPT !.pc = @ + 1] /\ UNCHANGED panicked
    /\ UNCHANGED <<amvars, trapvars, rights, hart, range_call, table, kernel_entries, sie, stale>>

\* (*self.0).map(phys, map_to, size, perms): the new leaf; the content of a
\* page fresh from the allocator is whatever it held
Map ==
    /\ ~panicked
    /\ NextStep = "map"
    /\ table' = [table EXCEPT ![ptm.virt] =
                    [perms |-> ptm.perms,
                     content |-> IF ptm.name = "map_direct" THEN "direct" ELSE "uninit"]]
    /\ stale' = [stale EXCEPT !.user = @ \cup {ptm.virt}]
    /\ ptm' = [ptm EXCEPT !.pc = @ + 1, !.touched.user = @ \cup {ptm.virt}]
    /\ UNCHANGED <<amvars, trapvars, rights, hart, range_call, panicked, kernel_entries, sie, phys_free>>

\* the loop copying data into the new page through phys2virt(phys)
WriteData ==
    /\ ~panicked
    /\ NextStep = "write_data"
    /\ table' = [table EXCEPT ![ptm.virt].content = ptm.data]
    /\ ptm' = [ptm EXCEPT !.pc = @ + 1]
    /\ UNCHANGED <<amvars, trapvars, rights, hart, range_call, panicked, kernel_entries, sie, stale, phys_free>>

\* sfence(Some(map_to), None)
Sfence ==
    /\ ~panicked
    /\ NextStep = "sfence"
    /\ stale' = sfence(stale, {ptm.virt})
    /\ ptm' = [ptm EXCEPT !.pc = @ + 1]
    /\ UNCHANGED <<amvars, trapvars, rights, hart, range_call, panicked, table, kernel_entries, sie, phys_free>>

\* the end of the scope of _disabler: interrupts are as they were before it
Drop ==
    /\ ~panicked
    /\ NextStep = "drop"
    /\ sie' = ptm.saved
    /\ ptm' = [ptm EXCEPT !.pc = @ + 1]
    /\ UNCHANGED <<amvars, trapvars, rights, hart, range_call, panicked, table, kernel_entries, stale, phys_free>>

\* if let Some((entry, _)) = (*self.0).entry_mut(virt): without a leaf the
\* operation is over
EntryMut ==
    /\ ~panicked
    /\ NextStep = "entry_mut"
    /\ ptm' = [ptm EXCEPT !.pc = IF table[ptm.virt] = NotValid THEN Len(Steps(ptm.name)) + 1 ELSE @ + 1]
    /\ UNCHANGED <<amvars, trapvars, rights, hart, range_call, panicked, table, kernel_entries, sie, stale, phys_free>>

\* entry.set_permissions(new_permissions)
SetPermissions ==
    /\ ~panicked
    /\ NextStep = "set_permissions"
    /\ table' = [table EXCEPT ![ptm.virt].perms = ptm.perms]
    /\ stale' = [stale EXCEPT !.user = @ \cup {ptm.virt}]
    /\ ptm' = [ptm EXCEPT !.pc = @ + 1, !.touched.user = @ \cup {ptm.virt}]
    /\ UNCHANGED <<amvars, trapvars, rights, hart, range_call, panicked, kernel_entries, sie, phys_free>>

\* (*self.0).entries[i] = current.entries[i]
CopyEntry ==
    /\ ~panicked
    /\ NextStep = "copy_entry"
    /\ kernel_entries' = [kernel_entries EXCEPT ![ptm.pc] = "kernel"]
    /\ stale' = [stale EXCEPT !.kernel = TRUE]
    /\ ptm' = [ptm EXCEPT !.pc = @ + 1, !.touched.kernel = TRUE]
    /\ UNCHANGED <<amvars, trapvars, rights, hart, range_call, panicked, table, sie, phys_free>>

\* the operation returns to its caller
PtmReturn ==
    /\ ~panicked
    /\ NextStep = "return"
    /\ ptm' = PtmIdle
    /\ UNCHANGED <<amvars, trapvars, rights, hart, range_call, panicked, table, kernel_entries, sie, stale, phys_free>>

\* a timer interrupt is taken before the next step of the call in progress
TimerInterrupt ==
    /\ ~panicked
    /\ sie
    /\ ptm.name # "none" /\ ptm.pc \in DOMAIN Steps(ptm.name)
    /\ ptm.irq_at = 0
    /\ ptm' = [ptm EXCEPT !.irq_at = ptm.pc]
    /\ UNCHANGED <<amvars, trapvars, rights, hart, range_call, panicked, table, kernel_entries, sie, stale, phys_free>>

\* between two calls the kernel enables or disables interrupts
CallerInterrupts ==
    /\ ~panicked
    /\ ptm.name = "none"
    /\ range_call.name = "none"
    /\ sie' = ~sie
    /\ UNCHANGED <<amvars, trapvars, rights, hart, range_call, panicked, table, kernel_entries, stale, phys_free, ptm>>

\* alloc_virtual_range and alloc_virtual_range_with_data are called with a
\* page-aligned size, as their assert_eq! demands, on pages without a leaf
RangeCall ==
    /\ ~panicked
    /\ ptm.name = "none"
    /\ range_call.name = "none"
    /\ \E name \in RangeOps, start \in PtmPages, size \in RangeSizes, perms \in PtmPerms, len \in DataLens :
        /\ name = "alloc_virtual_range" => len = 0
        /\ \A idx \in 0..(size \div 4096 - 1) :
              offset(start, idx * 4096) \in PtmPages /\ table[offset(start, idx * 4096)] = NotValid
        /\ range_call' = [NoRange EXCEPT !.name = name, !.start = start, !.size = size, !.perms = perms,
                                         !.len = len, !.phys = phys_free]
    /\ UNCHANGED <<amvars, trapvars, rights, hart, panicked, table, kernel_entries, sie, stale, phys_free, ptm>>

\* one iteration of the for loop: the call of alloc_virtual or of
\* alloc_virtual_with_data for the page of index idx
RangeIter ==
    /\ ~panicked
    /\ range_call.name # "none" /\ ~range_call.done
    /\ ptm.name = "none"
    /\ range_call.idx < Iterations(range_call)
    /\ ptm' = IF range_call.name = "alloc_virtual_range"
              THEN [PtmIdle EXCEPT !.name = "alloc_virtual",
                                   !.virt = offset(range_call.start, range_call.idx * 4096),
                                   !.perms = range_call.perms, !.pc = 1]
              ELSE [PtmIdle EXCEPT !.name = "alloc_virtual_with_data",
                                   !.virt = offset(range_call.start, range_call.idx * 4096),
                                   !.perms = range_call.perms, !.data = Chunk(range_call.idx), !.pc = 1]
    /\ range_call' = [range_call EXCEPT !.idx = @ + 1]
    /\ UNCHANGED <<amvars, trapvars, rights, hart, panicked, table, kernel_entries, sie, stale, phys_free>>

\* the iterator is exhausted: the range call returns
RangeReturn ==
    /\ ~panicked
    /\ range_call.name # "none" /\ ~range_call.done
    /\ ptm.name = "none"
    /\ range_call.idx = Iterations(range_call)
    /\ range_call' = [range_call EXCEPT !.done = TRUE]
    /\ UNCHANGED <<amvars, trapvars, rights, hart, panicked, table, kernel_entries, sie, stale, phys_free, ptm>>

\* the caller goes on
RangeAck ==
    /\ ~panicked
    /\ range_call.done
    /\ range_call' = NoRange
    /\ UNCHANGED <<amvars, trapvars, rights, hart, panicked, table, kernel_entries, sie, stale, phys_free, ptm>>

PtmNext ==
    \/ PtmCall \/ Disable \/ NewPhysPage \/ Map \/ WriteData \/ Sfence \/ Drop
    \/ EntryMut \/ SetPermissions \/ CopyEntry \/ PtmReturn \/ TimerInterrupt \/ CallerInterrupts
    \/ RangeCall \/ RangeIter \/ RangeReturn \/ RangeAck

PtmSpec == Init /\ [][PtmNext]_vars

(***************************************************************************)
(* CapabilityRights: is_superset, & and | applied to every pair of rights  *)
(* values that CapabilityRights::new and the four constants give.          *)
(***************************************************************************)
\* the values code outside capabilities.rs starts from: the field is private
BuiltRights == {CapabilityRights_new(v) : v \in RawRights} \cup RightsConstants

RightsInit ==
    /\ KernelInit
    /\ hart = Hart
    /\ \E r1 \in BuiltRights, r2 \in BuiltRights :
        rights = [NoRights EXCEPT !.self = r1, !.other = r2]

IsSupersetCall ==
    /\ ~rights.done
    /\ rights' = [rights EXCEPT !.done = TRUE, !.res = is_superset(rights.self, rights.other)]
    /\ UNCHANGED <<amvars, trapvars, ptmvars, hart, panicked>>

\* self & other
BitAndCall ==
    /\ ~rights.anded
    /\ rights' = [rights EXCEPT !.anded = TRUE, !.and_res = bitand(rights.self, rights.other)]
    /\ UNCHANGED <<amvars, trapvars, ptmvars, hart, panicked>>

\* self |= other, or other = other | self: the outcomes of the comparisons
\* made before are those of the old values
BitOrCall ==
    /\ \/ rights' = [NoRights EXCEPT !.self = bitor(rights.self, rights.other), !.other = rights.other,
                                      !.combined = TRUE]
       \/ rights' = [NoRights EXCEPT !.self = rights.self, !.other = bitor(rights.other, rights.self),
                                      !.combined = TRUE]
    /\ UNCHANGED <<amvars, trapvars, ptmvars, hart, panicked>>

RightsNext == IsSupersetCall \/ BitAndCall \/ BitOrCall

RightsSpec == RightsInit /\ [][RightsNext]_vars

(***************************************************************************)
(* The trampoline on one hart: a trap taken from a task, the entry         *)
(* sequence, the call of trap_handler, the exit sequence, sret.            *)
(***************************************************************************)
\* the hart takes a trap: sepc, scause and stval are set, SPIE takes the value
\* of SIE and SIE is cleared, and execution continues at stvec
TrapTaken ==
    /\ hart.mode = "task"
    /\ hart' = [hart EXCEPT !.mode = "shim", !.pc = 1,
                            !.sepc = Word("trapped_pc", 0), !.scause = Word("cause", 0),
                            !.stval = Word("tval", 0),
                            !.sstatus = (@ \ {SIE, SPIE}) \cup (IF SIE \in @ THEN {SPIE} ELSE {})]
    /\ UNCHANGED <<amvars, trapvars, ptmvars, rights, panicked>>

ShimStep ==
    /\ hart.mode = "shim"
    /\ stvec_trap_shim[hart.pc][1] \notin {"call", "sret"}
    /\ hart' = [Exec(hart, stvec_trap_shim[hart.pc]) EXCEPT !.pc = @ + 1]
    /\ UNCHANGED <<amvars, trapvars, ptmvars, rights, panicked>>

\* call trap_handler, for the runs of trap_handler that return: it returns
\* sepc in a0, keeps the callee-saved registers, may have used every
\* caller-saved register, and may have written to the frame
CallTrapHandler ==
    /\ hart.mode = "shim"
    /\ stvec_trap_shim[hart.pc][1] = "call"
    /\ \E wr \in FrameWrites, fp_used \in BOOLEAN :
        hart' = [hart EXCEPT
                    !.pc = @ + 1,
                    !.frame = hart.x[10],
                    !.ret = hart.x[11],
                    !.x = [i \in 1..31 |-> IF i = 10 THEN hart.x[11]
                                           ELSE IF i \in CallerSavedX THEN Word("clobbered", i)
                                           ELSE hart.x[i]],
                    !.f = [i \in 0..31 |-> IF fp_used /\ i \in CallerSavedF THEN Word("clobbered", i)
                                           ELSE hart.f[i]],
                    !.mem = IF wr = "a0"
                            THEN Store(@, AddImm(hart.x[10], TrapFrame.registers[10]), Word("result", 0))
                            ELSE @,
                    !.loads = {}]
    /\ UNCHANGED <<amvars, trapvars, ptmvars, rights, panicked>>

\* sret: execution resumes at sepc, SIE takes the value of SPIE
Sret ==
    /\ hart.mode = "shim"
    /\ stvec_trap_shim[hart.pc][1] = "sret"
    /\ hart' = [hart EXCEPT !.mode = "resumed", !.pc = 0,
                            !.sstatus = (@ \ {SIE}) \cup (IF SPIE \in @ THEN {SIE} ELSE {}) \cup {SPIE}]
    /\ UNCHANGED <<amvars, trapvars, ptmvars, rights, panicked>>

ShimNext == TrapTaken \/ ShimStep \/ CallTrapHandler \/ Sret

ShimSpec == Init /\ [][ShimNext]_vars

(***************************************************************************)
(* Properties of the AddressMap (checked under Spec)                       *)
(***************************************************************************)
Returned == ~panicked

InSpan(r, a) == r.span.start <= a /\ a < r.span.end

Disjoint(r1, r2) == r1.span.end <= r2.span.start \/ r2.span.end <= r1.span.start

\* the first and the last byte of every granule of the userspace range
ProbeAddrs == {i * 4096 + d : i \in 0..(NPages - 1), d \in {0, 4095}}

\* the regions of m partition the userspace range: every span is non-empty and
\* inside the range, no two spans overlap, and the spans chain from the start
\* of the range to its end without a gap
Partition(m) ==
    /\ \A k \in DOMAIN m :
        /\ m[k].span.start < m[k].span.end
        /\ userspace_range.start <= m[k].span.start
        /\ m[k].span.end <= userspace_range.end
    /\ \A k1 \in DOMAIN m, k2 \in DOMAIN m : k1 # k2 => Disjoint(m[k1], m[k2])
    /\ \E k \in DOMAIN m : m[k].span.start = userspace_range.start
    /\ \A k \in DOMAIN m :
        \/ m[k].span.end = userspace_range.end
        \/ \E k2 \in DOMAIN m : m[k2].span.start = m[k].span.end
    /\ \A a \in ProbeAddrs : Cardinality({k \in DOMAIN m : InSpan(m[k], a)}) = 1

InsideUnoccupied(m, R) ==
    \E k \in DOMAIN m :
        m[k].region = None /\ m[k].span.start <= R.start /\ R.end <= m[k].span.end

\* R overlaps an occupied region of m
OverlapsOccupied(m, R) ==
    \E k \in DOMAIN m :
        m[k].region # None /\ R.start < m[k].span.end /\ m[k].span.start < R.end

\* R is exactly the span of an occupied region of m
ExactOccupied(m, R) ==
    \E k \in DOMAIN m : m[k].region # None /\ m[k].span = R

\* C2: round trip. An alloc of a range inside an unoccupied region succeeds,
\* the free of the same range that follows it returns Ok with the backing
\* given to alloc, and the map after the free equals the map before the alloc
\* (same regions, spans, occupancy and kinds).
C2_RoundTrip ==
    (last.op = "alloc" /\ InsideUnoccupied(pre, last.range)) =>
        /\ last.res = "Ok"
        /\ LET f == free(map, last.range)
           IN  f.res = "Ok" /\ f.ret = last.backing /\ f.map = pre

\* the map of the scenario of C3, just before the free
C3_Before(b) == alloc(new, Range(4096, 12288), b, "Stack").map

\* C3: from a fresh map, alloc([0x1000,0x3000), Stack) then
\* free([0x1000,0x3000)) completes and leaves a single unoccupied region
\* spanning the full userspace range.
C3_Scenario ==
    \A b \in Backings :
        (last.op = "free" /\ last.range = Range(4096, 12288) /\ pre = C3_Before(b)) =>
            /\ last.res = "Ok"
            /\ DOMAIN map = {userspace_range.end}
            /\ map[userspace_range.end].region = None
            /\ map[userspace_range.end].span = userspace_range

NoAdjacentUnoccupied(m) ==
    \A k1 \in DOMAIN m, k2 \in DOMAIN m :
        (m[k1].region = None /\ m[k2].region = None) => m[k1].span.end # m[k2].span.start

\* the start of the run of unoccupied regions of m that ends at address a
RECURSIVE RunStart(_, _)
RunStart(m, a) ==
    IF \E k \in DOMAIN m : m[k].region = None /\ m[k].span.end = a
    THEN RunStart(m, m[CHOOSE k \in DOMAIN m : m[k].region = None /\ m[k].span.end = a].span.start)
    ELSE a

\* the end of the run of unoccupied regions of m that starts at address a
RECURSIVE RunEnd(_, _)
RunEnd(m, a) ==
    IF \E k \in DOMAIN m : m[k].region = None /\ m[k].span.start = a
    THEN RunEnd(m, m[CHOOSE k \in DOMAIN m : m[k].region = None /\ m[k].span.start = a].span.end)
    ELSE a

\* C4: after every successful free no two neighbouring regions are both
\* unoccupied, and the freed span has been merged with all the unoccupied
\* regions adjacent to it on either side into one unoccupied region.
C4_Coalesced ==
    (last.op = "free" /\ last.res = "Ok") =>
        /\ NoAdjacentUnoccupied(map)
        /\ \E k \in DOMAIN map :
            /\ map[k].region = None
            /\ map[k].span = Range(RunStart(pre, last.range.start), RunEnd(pre, last.range.end))

C4_Witness ==
    /\ last.op = "free" /\ last.res = "Ok"
    /\ RunStart(pre, last.range.start) < last.range.start
    /\ RunEnd(pre, last.range.end) > last.range.end

\* C5: alloc returns Err and leaves the map as it was whenever the range
\* overlaps an occupied region, is not contained in one unoccupied region, or
\* extends past the end of the userspace range.
C5_AllocRefused ==
    (/\ last.op = "alloc"
     /\ \/ OverlapsOccupied(pre, last.range)
        \/ ~InsideUnoccupied(pre, last.range)
        \/ last.range.end > userspace_range.end) =>
        (last.res = "Err" /\ map = pre)

C5_Witness ==
    /\ last.op = "alloc" /\ last.res = "Err"
    /\ OverlapsOccupied(pre, last.range)
    /\ \E k \in DOMAIN pre :
        pre[k].region = None /\ last.range.start < pre[k].span.end /\ pre[k].span.start < last.range.end

\* C6: free succeeds only on a range that is exactly the span of an occupied
\* region; on every other range it returns Err and leaves the map as it was,
\* and a second free of a range just freed returns Err.
C6_FreeExact ==
    (last.op = "free") =>
        /\ last.res = "Ok" => ExactOccupied(pre, last.range)
        /\ ~ExactOccupied(pre, last.range) => (last.res = "Err" /\ map = pre)
        /\ last.res = "Ok" =>
            LET again == free(map, last.range) IN again.res = "Err" /\ again.map = map

C6_Witness ==
    /\ last.op = "free" /\ last.res = "Err"
    /\ \E k \in DOMAIN pre :
        /\ pre[k].region # None
        /\ pre[k].span.start < last.range.start
        /\ last.range.end = pre[k].span.end

\* the map of the scenario of C7, just before the free
C7_Before(b1, b2) ==
    alloc(alloc(new, Range(4096, 8192), b1, "Data").map, Range(8192, 12288), b2, "Data").map

C7_Case(b1, b2) ==
    last.op = "free" /\ last.range = Range(4096, 8192) /\ pre = C7_Before(b1, b2)

\* C7 as claimed: from a fresh map, after alloc([0x1000,0x2000), Data) and
\* alloc([0x2000,0x3000), Data), free([0x1000,0x2000)) leaves an unoccupied
\* region with span exactly [0x1000,0x2000) and [0x2000,0x3000) occupied with
\* its backing.
C7_Original ==
    \A b1 \in Backings, b2 \in Backings :
        C7_Case(b1, b2) =>
            /\ \E k \in DOMAIN map : map[k].region = None /\ map[k].span = Range(4096, 8192)
            /\ \E k \in DOMAIN map : map[k].region = b2 /\ map[k].span = Range(8192, 12288)

\* C7 as amended: in that scenario the free returns the first backing, the
\* freed span is merged with the unoccupied region [0,0x1000) before it into
\* one unoccupied region [0,0x2000), and [0x2000,0x3000) stays occupied with
\* its backing and kind: the freed span is not merged into it.
C7_Amended ==
    \A b1 \in Backings, b2 \in Backings :
        C7_Case(b1, b2) =>
            /\ last.res = "Ok" /\ last.ret = b1
            /\ \E k \in DOMAIN map : map[k].region = None /\ map[k].span = Range(0, 8192)
            /\ \A k \in DOMAIN map : map[k].span # Range(4096, 8192)
            /\ \E k \in DOMAIN map : map[k] = AddressRegion(b2, Range(8192, 12288), "Data")

C7_Witness == \E b1 \in Backings, b2 \in Backings : b1 # b2 /\ C7_Case(b1, b2)

\* C8: for every address a of the userspace range, find(a) returns the region
\* whose span [start,end) contains a, also when a is the boundary between two
\* regions.
C8_FindContains ==
    (/\ last.op = "find"
     /\ userspace_range.start <= last.range.start
     /\ last.range.start < userspace_range.end) =>
        last.found = {pre[k] : k \in {x \in DOMAIN pre : InSpan(pre[x], last.range.start)}}

(***************************************************************************)
(* Properties of the trap path (checked under TrapSpec)                    *)
(***************************************************************************)
\* the traps C9 lists as caused by the running task's own actions
TaskCaused(t) ==
    /\ t.in.by = "task"
    /\ \/ t.kind \in {"IllegalInstruction", "Breakpoint",
                      "InstructionAddressMisaligned", "LoadAddressMisaligned", "StoreAddressMisaligned",
                      "InstructionAccessFault", "LoadAccessFault", "StoreAccessFault"}
       \/ t.kind = "UserModeEnvironmentCall" /\ t.in.a0 \notin {0, 1, 2}
       \/ /\ t.kind \in {"LoadPageFault", "StorePageFault", "InstructionPageFault"}
          /\ ~is_kernel_region(t.in.stval)

\* C9: on a trap caused by the running task's own actions trap_handler at most
\* marks that task Dead: it does not panic and changes no other task's state.
C9_TaskFaultIsolated ==
    (trap.op = "trap" /\ TaskCaused(trap)) =>
        /\ trap.ret # "panic"
        /\ ~panicked
        /\ \A t \in Tasks :
            \/ task_state[t] = trap.pre_state[t]
            \/ t = trap.active /\ task_state[t] = "Dead"

\* the 23 cause codes C10 lists
DefinedCodes ==
    {U64(32768, 0, 0, n) : n \in {0, 1, 3, 4, 5, 7, 8, 9, 11}}
        \cup {U64(0, 0, 0, n) : n \in (0..9) \cup {11, 12, 13, 15}}

\* C10: from_cause is total: each of the 23 defined codes decodes to a named
\* variant of its own whose discriminant is the code, and every other value
\* decodes to Reserved.
C10_Decode ==
    /\ (trap.op = "trap") =>
        /\ trap.in.scause \in DefinedCodes =>
            (trap.kind # "Reserved" /\ Discriminant(trap.kind) = trap.in.scause)
        /\ trap.in.scause \notin DefinedCodes => trap.kind = "Reserved"
    /\ Cardinality(DefinedCodes) = 23
    /\ Cardinality({from_cause(c) : c \in DefinedCodes}) = 23

C10_Witness ==
    /\ trap.op = "trap"
    /\ trap.in.scause = U64(32768, 0, 0, 11)
    /\ trap.kind = "MachineExternalInterrupt"

\* no task but the active one has changed its state during the trap
OthersUntouched == \A t \in Tasks \ {trap.active} : task_state[t] = trap.pre_state[t]

UnknownSyscall(t) == t.op = "trap" /\ t.kind = "UserModeEnvironmentCall" /\ t.in.a0 \notin {0, 1, 2}

\* C11: on a user-mode environment call whose a0 is not 0, 1 or 2,
\* trap_handler sets the active task's state to Dead, does not panic, and
\* changes no other task's state.
C11_UnknownSyscallKills ==
    UnknownSyscall(trap) =>
        /\ trap.ret # "panic"
        /\ ~panicked
        /\ trap.active \in Tasks
        /\ task_state[trap.active] = "Dead"
        /\ OthersUntouched

C11_Witness ==
    /\ UnknownSyscall(trap)
    /\ trap.pre_state[trap.active] = "Running"
    /\ task_state[trap.active] = "Dead"
    /\ \E t \in Tasks \ {trap.active} : task_state[t] = "Running"

PrintSyscall(t) == t.op = "trap" /\ t.kind = "UserModeEnvironmentCall" /\ t.in.a0 = 1

\* address a is in the kernel region, or not mapped in pf, or mapped without
\* the permission perm
BadUserAddress(pf, a, perm) ==
    \/ is_kernel_region(a)
    \/ mm_page_flags(pf, a) = {}
    \/ \E f \in mm_page_flags(pf, a) : perm \notin f

\* C12: when print is given a source buffer or a result-output address that
\* is unmapped, lacks the required permission or lies in the kernel region,
\* the calling task is marked Dead, the kernel does not panic, and no other
\* task's state changes.
C12_PrintBadMemoryKills ==
    (/\ PrintSyscall(trap)
     /\ LET pf == trap.pre_flags[trap.active]
        IN  \/ BadUserAddress(pf, trap.in.a1, "READ")
            \/ BadUserAddress(pf, Add64(trap.in.a1, trap.in.a2), "READ")
            \/ BadUserAddress(pf, trap.in.a3, "WRITE")) =>
        /\ trap.ret # "panic"
        /\ ~panicked
        /\ task_state[trap.active] = "Dead"
        /\ OthersUntouched

\* the two ways print leaves the task alive on bad memory: a bad source
\* buffer is answered with Err, and a result-output address in the kernel
\* region is written to
C12_SourceAnswered ==
    /\ PrintSyscall(trap)
    /\ mm_page_flags(trap.pre_flags[trap.active], trap.in.a1) = {}
    /\ task_state[trap.active] = "Running" /\ trap.res_val = "Err"

C12_KernelWritten ==
    /\ PrintSyscall(trap)
    /\ is_kernel_region(trap.in.a3)
    /\ task_state[trap.active] = "Running" /\ trap.res_at = trap.in.a3

\* a store page fault of the active task on a user page that its page table
\* maps without write permission
StoreFaultReadOnly(t) ==
    /\ t.op = "trap" /\ t.kind = "StorePageFault"
    /\ ~is_kernel_region(t.in.stval)
    /\ t.active \in Tasks
    /\ page_of(t.in.stval) \in DOMAIN t.pre_flags[t.active]
    /\ "WRITE" \notin t.pre_flags[t.active][page_of(t.in.stval)]

\* C13: on a store page fault (cause 15) on a user address whose page is
\* mapped without write permission, the dispatcher never sets the write
\* permission on that mapping, and the faulting task is marked Dead rather
\* than having the store retried.
C13_StoreFaultReadOnlyKills ==
    StoreFaultReadOnly(trap) =>
        /\ "WRITE" \notin page_flags[trap.active][page_of(trap.in.stval)]
        /\ task_state[trap.active] = "Dead"
        /\ trap.ret # "sepc"

PageFaultKinds == {"LoadPageFault", "StorePageFault", "InstructionPageFault"}

\* a page fault of the active task at a user address its page table does not map
UnmappedFault(t) ==
    /\ t.op = "trap" /\ t.kind \in PageFaultKinds
    /\ ~is_kernel_region(t.in.stval)
    /\ t.active \in Tasks
    /\ page_of(t.in.stval) \notin DOMAIN t.pre_flags[t.active]

\* the positions of event e in the sequence of events es
Positions(es, e) == {i \in DOMAIN es : es[i] = e}

\* C14: on a page fault (load, store or instruction) at a user address that
\* is not mapped in the active task's page table, trap_handler marks the
\* active task Dead, releases the task lock, and invokes the Scheduler; it
\* does not panic and does not resume the faulting instruction.
C14_UnmappedFaultKills ==
    UnmappedFault(trap) =>
        /\ task_state[trap.active] = "Dead"
        /\ \E k \in Positions(trap.events, "kill"), u \in Positions(trap.events, "unlock"),
              c \in Positions(trap.events, "schedule") : k < u /\ u < c
        /\ trap.ret = "scheduled"
        /\ ~panicked

C14_Witness ==
    /\ UnmappedFault(trap)
    /\ trap.kind = "InstructionPageFault"
    /\ trap.pre_state[trap.active] = "Running"
    /\ task_state[trap.active] = "Dead"
    /\ current # trap.active

ExternalInterrupt(t) == t.op = "trap" /\ t.kind = "SupervisorExternalInterrupt"

\* C15: on a supervisor external interrupt every interrupt id claimed from
\* the PLIC is completed exactly once before trap_handler returns, whether no
\* handler is registered for it, the handler returns Ok, or the handler
\* returns Err; a handler error never panics the kernel.
C15_ClaimCompleted ==
    ExternalInterrupt(trap) =>
        /\ Cardinality(Positions(trap.events, "claim")) <= 1
        /\ Cardinality(Positions(trap.events, "complete")) = Cardinality(Positions(trap.events, "claim"))
        /\ \A c \in Positions(trap.events, "claim") :
              /\ \E d \in Positions(trap.events, "complete") : c < d
              /\ plic.pending \subseteq trap.pre_plic.pending
              /\ Cardinality(trap.pre_plic.pending \ plic.pending) = 1
        /\ trap.ret = "sepc"
        /\ ~panicked

C15_Witness ==
    /\ ExternalInterrupt(trap)
    /\ trap.events = <<"claim", "isr_err", "complete">>
    /\ ~panicked

\* the other two cases of C15: no handler registered, and a handler returning Ok
C15_Unregistered == ExternalInterrupt(trap) /\ trap.events = <<"claim", "complete">>

C15_HandlerOk == ExternalInterrupt(trap) /\ trap.events = <<"claim", "isr_ok", "complete">>

(***************************************************************************)
(* Properties of the PageTableManager (checked under PtmSpec)              *)
(***************************************************************************)
\* the positions of the steps of the operation `name` that write the table
MutationAt(name) == {i \in DOMAIN Steps(name) : Steps(name)[i] \in MutatingSteps}

\* an interrupt was taken after a write of the operation in progress and
\* before its last one
InterruptedHalfBuilt ==
    /\ ptm.irq_at # 0
    /\ \E i \in MutationAt(ptm.name), j \in MutationAt(ptm.name) : i < ptm.irq_at /\ ptm.irq_at <= j

\* C16: every PageTableManager operation that mutates the page table
\* (alloc_virtual, alloc_virtual_with_data, map_direct,
\* modify_page_permissions, copy_kernel_pages) performs its whole mutation
\* with interrupts disabled on the executing hart, so that no timer interrupt
\* is taken between the start of the mutation and its completion.
C16_MutationInterruptsOff ==
    /\ NextStep \in MutatingSteps => ~sie
    /\ ~InterruptedHalfBuilt

\* C17: every PageTableManager operation that changes a mapping has, when it
\* returns, invalidated the translations of the address it changed (all
\* translations, for copy_kernel_pages) after the change.
C17_InvalidatedOnReturn ==
    NextStep = "return" =>
        /\ ptm.touched.user \cap stale.user = {}
        /\ ptm.touched.kernel => ~stale.kernel

(***************************************************************************)
(* Properties of CapabilityRights (checked under RightsSpec)               *)
(***************************************************************************)
\* the positions 0..63 of the bits set in the usize x
BitsOf(x) == {i \in 0..63 : (x[4 - (i \div 16)] \div (2 ^ (i % 16))) % 2 = 1}

\* C18: a.is_superset(b) is true exactly when every bit set in b is also set
\* in a; in particular is_superset(r, r) and is_superset(r, NONE) are true
\* for every r, and is_superset(NONE, r) is false for every nonzero r.
C18_IsSuperset ==
    rights.done =>
        /\ rights.res = (BitsOf(rights.other) \subseteq BitsOf(rights.self))
        /\ rights.self = rights.other => rights.res
        /\ rights.other = Lit(0) => rights.res
        /\ (rights.self = Lit(0) /\ rights.other # Lit(0)) => ~rights.res

C18_Witness ==
    /\ rights.done
    /\ rights.self = Lit(6) /\ rights.other = Lit(5)
    /\ ~rights.res

(***************************************************************************)
(* Properties of the trampoline (checked under ShimSpec)                   *)
(***************************************************************************)
\* the register each field of Registers is named after, by the ABI names of
\* the ISA: x1 = ra, x2 = sp, ..., x31 = t6
AbiName ==
    [i \in 1..31 |->
        CASE i = 1 -> "ra" [] i = 2 -> "sp" [] i = 3 -> "gp" [] i = 4 -> "tp"
          [] i = 5 -> "t0" [] i = 6 -> "t1" [] i = 7 -> "t2" [] i = 8 -> "s0" [] i = 9 -> "s1"
          [] i = 10 -> "a0" [] i = 11 -> "a1" [] i = 12 -> "a2" [] i = 13 -> "a3" [] i = 14 -> "a4"
          [] i = 15 -> "a5" [] i = 16 -> "a6" [] i = 17 -> "a7"
          [] i = 18 -> "s2" [] i = 19 -> "s3" [] i = 20 -> "s4" [] i = 21 -> "s5" [] i = 22 -> "s6"
          [] i = 23 -> "s7" [] i = 24 -> "s8" [] i = 25 -> "s9" [] i = 26 -> "s10" [] i = 27 -> "s11"
          [] i = 28 -> "t3" [] i = 29 -> "t4" [] i = 30 -> "t5" [] i = 31 -> "t6"]

\* the field of Registers that is named after register x_i
FieldOfX(i) == CHOOSE k \in DOMAIN Registers : Registers[k] = AbiName[i]

\* the hart is about to execute call trap_handler
AtCall == hart.mode = "shim" /\ stvec_trap_shim[hart.pc][1] = "call"

\* C19: the entry sequence stores each general-purpose register x1..x31
\* (with the trapped task's sp, tp and s0, not the kernel's) at byte offset
\* 8*(i-1), each floating-point register f0..f31 at offset 248+8*i and the FP
\* status at offset 504 of a 512-byte frame, and these offsets are those of
\* the fields of TrapFrame { Registers, FloatingPointRegisters } in order.
C19_FrameLayout ==
    AtCall =>
        LET frame == hart.x[2]
        IN  /\ frame = AddImm(Word("kernel_sp", 0), -512)
            /\ TrapFrame.size = 512
            /\ \A i \in 1..31 :
                  /\ Load(hart.mem, AddImm(frame, 8 * (i - 1))) = Word("x", i)
                  /\ \E k \in DOMAIN Registers : Registers[k] = AbiName[i]
                  /\ TrapFrame.registers[FieldOfX(i)] = 8 * (i - 1)
            /\ \A i \in 0..31 :
                  /\ Load(hart.mem, AddImm(frame, 248 + 8 * i)) = Word("f", i)
                  /\ TrapFrame.fp_registers[i + 1] = 248 + 8 * i
            /\ Load(hart.mem, AddImm(frame, 504)) = Word("fcsr", 0)
            /\ FloatingPointRegisters[33] = "fscr" /\ TrapFrame.fp_registers[33] = 504

C19_Witness ==
    /\ AtCall
    /\ hart.x[4] = Word("kernel_tp", 0)
    /\ hart.x[10] = hart.x[2]
    /\ Load(hart.mem, AddImm(hart.x[2], 24)) = Word("x", 4)
    /\ Load(hart.mem, AddImm(hart.x[2], 56)) = Word("x", 8)

\* C20: when trap_handler has returned, the exit sequence loads every
\* general-purpose and every floating-point register and the FP status from
\* the frame, writes the program counter the handler returned to sepc and
\* executes sret, so that after the return each general-purpose and
\* floating-point register holds the value stored in the frame.
C20_ExitRestores ==
    hart.mode = "resumed" =>
        /\ hart.sepc = hart.ret
        /\ \A i \in 1..31 :
              /\ <<"x", i, AddImm(hart.frame, TrapFrame.registers[i])>> \in hart.loads
              /\ hart.x[i] = Load(hart.mem, AddImm(hart.frame, TrapFrame.registers[i]))
        /\ \A i \in 0..31 :
              /\ <<"f", i, AddImm(hart.frame, TrapFrame.fp_registers[i + 1])>> \in hart.loads
              /\ hart.f[i] = Load(hart.mem, AddImm(hart.frame, TrapFrame.fp_registers[i + 1]))
        /\ hart.fcsr = Load(hart.mem, AddImm(hart.frame, TrapFrame.fp_registers[33]))

\* the parts of C20 that the exit sequence does achieve
C20_GeneralRestored ==
    hart.mode = "resumed" =>
        /\ hart.sepc = hart.ret
        /\ \A i \in 1..31 : hart.x[i] = Load(hart.mem, AddImm(hart.frame, TrapFrame.registers[i]))

(***************************************************************************)
(* Further properties of the AddressMap (checked under Spec)               *)
(***************************************************************************)
\* the unoccupied region of m that range R lies in
Enclosing(m, R) ==
    m[CHOOSE k \in DOMAIN m :
        m[k].region = None /\ m[k].span.start <= R.start /\ R.end <= m[k].span.end]

\* the keys of m whose regions lie inside span S
KeysInside(m, S) == {k \in DOMAIN m : S.start <= m[k].span.start /\ m[k].span.end <= S.end}

\* the regions stored under the keys K of m are pairwise disjoint and chain
\* from the start of span S to its end
Tiles(m, K, S) ==
    /\ \A k1 \in K, k2 \in K : k1 # k2 => Disjoint(m[k1], m[k2])
    /\ \E k \in K : m[k].span.start = S.start
    /\ \A k \in K : m[k].span.end = S.end \/ \E k2 \in K : m[k2].span.start = m[k].span.end

\* C21: after every successful alloc the enclosing unoccupied region has
\* been replaced by one to three regions whose spans are pairwise disjoint
\* and whose union is the span of the enclosing region; every region stored
\* in the map has a non-empty span and is stored under the key equal to the
\* end of its span.
C21_AllocSplit ==
    /\ (last.op = "alloc" /\ last.res = "Ok") =>
        /\ InsideUnoccupied(pre, last.range)
        /\ LET old    == Enclosing(pre, last.range)
               pieces == KeysInside(map, old.span)
           IN  /\ Cardinality(pieces) \in 1..3
               /\ Tiles(map, pieces, old.span)
               /\ DOMAIN map = ((DOMAIN pre) \ {old.span.end}) \cup pieces
               /\ \A k \in (DOMAIN pre) \ {old.span.end} : k \notin pieces /\ map[k] = pre[k]
    /\ \A k \in DOMAIN map : map[k].span.start < map[k].span.end /\ k = map[k].span.end

C21_Witness ==
    /\ last.op = "alloc" /\ last.res = "Ok"
    /\ Cardinality(KeysInside(map, Enclosing(pre, last.range).span)) = 3
    /\ Cardinality(DOMAIN pre) = 2

\* the partition a map describes: the span and the occupancy of every region
Shape(m) == {<<m[k].span, m[k].region # None>> : k \in DOMAIN m}

\* the spans of the occupied regions of m
OccupiedSpans(m) == {m[k].span : k \in {x \in DOMAIN m : m[x].region # None}}

\* C22: free is order-independent: for a map with two distinct occupied
\* regions A and B, freeing A then B and freeing B then A both succeed and
\* produce the same final partition (same spans and occupancy).
C22_FreeOrderIndependent ==
    (last.op = "free" /\ ExactOccupied(pre, last.range)) =>
        \A B \in OccupiedSpans(pre) \ {last.range} :
            LET ab == free(map, B)
                b  == free(pre, B)
                ba == free(b.map, last.range)
            IN  /\ last.res = "Ok" /\ ab.res = "Ok"
                /\ b.res = "Ok" /\ ba.res = "Ok"
                /\ Shape(ab.map) = Shape(ba.map)

(***************************************************************************)
(* Further properties of the trap path (checked under TrapSpec)            *)
(***************************************************************************)
Syscall(t) == t.op = "trap" /\ t.kind = "UserModeEnvironmentCall"

\* event e happens exactly once in es
Once(es, e) == Cardinality(Positions(es, e)) = 1

\* the position of the only event e of es
At(es, e) == CHOOSE i \in DOMAIN es : es[i] = e

\* C23: for every user-mode environment call, whatever the syscall number
\* and whatever state the handler leaves the task in, trap_handler first
\* runs the selected handler, then stores into the active task's Context the
\* pc sepc + 4 together with the current register frame, then releases the
\* task lock, and only then invokes the Scheduler.
C23_SyscallOrder ==
    Syscall(trap) =>
        /\ trap.active \in Tasks
        /\ \A e \in {"handler", "context", "unlock", "schedule"} : Once(trap.events, e)
        /\ At(trap.events, "handler") < At(trap.events, "context")
        /\ At(trap.events, "context") < At(trap.events, "unlock")
        /\ At(trap.events, "unlock") < At(trap.events, "schedule")
        /\ context[trap.active] = [pc |-> trap.in.sepc + 4, gp_regs |-> trap.in.gp, fp_regs |-> trap.in.fp]
        /\ trap.ret = "scheduled"
        /\ ~panicked

\* a print that succeeds leaves the task running, and its context is saved
C23_Witness ==
    /\ Syscall(trap)
    /\ trap.in.a0 = 1 /\ trap.res_val = "Ok"
    /\ task_state[trap.active] = "Running"
    /\ trap.pre_context[trap.active] = InitialContext
    /\ context[trap.active].pc = trap.in.sepc + 4

\* an exit leaves the task dead, and its context is saved all the same
C23_DeadSaved ==
    /\ Syscall(trap)
    /\ trap.in.a0 = 0
    /\ task_state[trap.active] = "Dead"
    /\ context[trap.active].pc = trap.in.sepc + 4

Timer(t) == t.op = "trap" /\ t.kind = "SupervisorTimerInterrupt"

\* C24: on a supervisor timer interrupt trap_handler always invokes the
\* Scheduler; the active task's Context is overwritten with pc = sepc and the
\* trapped general-purpose and floating-point registers if and only if a
\* task is current on this hart, and no task's state flag is changed.
C24_TimerSaves ==
    Timer(trap) =>
        /\ Once(trap.events, "schedule")
        /\ trap.events[Len(trap.events)] = "schedule"
        /\ trap.ret = "scheduled"
        /\ ~panicked
        /\ task_state = trap.pre_state
        /\ (trap.active # None) <=> (Positions(trap.events, "context") # {})
        /\ IF trap.active # None
           THEN context = [trap.pre_context EXCEPT ![trap.active] =
                              [pc |-> trap.in.sepc, gp_regs |-> trap.in.gp, fp_regs |-> trap.in.fp]]
           ELSE context = trap.pre_context

C24_Witness ==
    /\ Timer(trap)
    /\ trap.active \in Tasks
    /\ trap.pre_context[trap.active] # context[trap.active]
    /\ context[trap.active].pc = trap.in.sepc
    /\ \E t \in Tasks : task_state[t] = "Dead"

\* the other case of C24: no task is current, and no context is written
C24_NoTask == Timer(trap) /\ trap.active = None /\ context = trap.pre_context

\* a page fault of the active task at a user address its page table maps
MappedFault(t) ==
    /\ t.op = "trap" /\ t.kind \in PageFaultKinds
    /\ ~is_kernel_region(t.in.stval)
    /\ t.active \in Tasks
    /\ page_of(t.in.stval) \in DOMAIN t.pre_flags[t.active]

\* C25: on a page fault at a user address that is mapped, trap_handler adds
\* only the ACCESSED flag (load or instruction fault) or ACCESSED and DIRTY
\* (store fault) to that page's entry and leaves its other flags unchanged,
\* invalidates the translation cache for that address, does not invoke the
\* Scheduler, leaves the task's state and saved Context unchanged, and
\* returns the unmodified sepc so that the same instruction is retried.
C25_MappedFaultRetries ==
    MappedFault(trap) =>
        LET page  == page_of(trap.in.stval)
            added == IF trap.kind = "StorePageFault" THEN {"ACCESSED", "DIRTY"} ELSE {"ACCESSED"}
        IN  /\ page_flags = [trap.pre_flags EXCEPT ![trap.active][page] = @ \cup added]
            /\ Once(trap.events, "modify") /\ Once(trap.events, "sfence")
            /\ At(trap.events, "modify") < At(trap.events, "sfence")
            /\ Positions(trap.events, "schedule") = {}
            /\ task_state = trap.pre_state
            /\ context = trap.pre_context
            /\ current = trap.active
            /\ trap.ret = "sepc"
            /\ ~panicked

C25_Witness ==
    /\ MappedFault(trap)
    /\ trap.kind = "LoadPageFault"
    /\ trap.pre_flags[trap.active][page_of(trap.in.stval)] = {"READ"}
    /\ page_flags[trap.active][page_of(trap.in.stval)] = {"READ", "ACCESSED"}

\* the store case of C25
C25_StoreDirty ==
    /\ MappedFault(trap)
    /\ trap.kind = "StorePageFault"
    /\ trap.pre_flags[trap.active][page_of(trap.in.stval)] = {"READ", "WRITE"}
    /\ page_flags[trap.active][page_of(trap.in.stval)] = {"READ", "WRITE", "ACCESSED", "DIRTY"}

\* the causes trap_handler has an arm for
HandledKinds ==
    {"SupervisorTimerInterrupt", "UserModeEnvironmentCall", "SupervisorExternalInterrupt",
     "LoadPageFault", "StorePageFault", "InstructionPageFault"}

\* the two cases of C26
UnhandledCause(t) == t.kind \notin HandledKinds

KernelPageFault(t) == t.kind \in PageFaultKinds /\ is_kernel_region(t.in.stval)

\* TASKS.active_on_cpu() is None where the arm unwraps it
NoActiveTask(t) ==
    /\ t.active = None
    /\ \/ t.kind = "UserModeEnvironmentCall"
       \/ t.kind \in PageFaultKinds /\ ~is_kernel_region(t.in.stval)

\* the trap has left every task, page table and the PLIC as they were
NothingTouched ==
    /\ task_state = trap.pre_state
    /\ context = trap.pre_context
    /\ page_flags = trap.pre_flags
    /\ plic = trap.pre_plic

\* C26 as claimed: trap_handler panics exactly in two cases: the decoded
\* cause is none of SupervisorTimerInterrupt, UserModeEnvironmentCall,
\* SupervisorExternalInterrupt, LoadPageFault, StorePageFault,
\* InstructionPageFault (this includes Reserved); or the cause is one of the
\* three page faults and the faulting address lies in the kernel region. In
\* the page-fault case the panic happens before any task state or page-table
\* entry is touched.
C26_Original ==
    (trap.op = "trap") =>
        /\ (trap.ret = "panic") <=> (UnhandledCause(trap) \/ KernelPageFault(trap))
        /\ (trap.ret = "panic" /\ trap.kind \in PageFaultKinds) => NothingTouched

\* C26 as amended: trap_handler panics exactly in three cases: the two
\* claimed, and a user-mode environment call or a page fault at a user
\* address taken while no task is active on the hart. In every case the
\* panic happens before any task state or page-table entry is touched.
C26_Amended ==
    (trap.op = "trap") =>
        /\ (trap.ret = "panic") <=>
              (UnhandledCause(trap) \/ KernelPageFault(trap) \/ NoActiveTask(trap))
        /\ (trap.ret = "panic") <=> panicked
        /\ (trap.ret = "panic") => NothingTouched

C26_Witness ==
    /\ trap.op = "trap"
    /\ trap.ret = "panic"
    /\ trap.kind = "LoadPageFault"
    /\ NoActiveTask(trap)
    /\ page_of(trap.in.stval) = PageRW

\* the two cases of C26 as claimed
C26_KernelFault == trap.op = "trap" /\ trap.ret = "panic" /\ KernelPageFault(trap) /\ trap.active \in Tasks

C26_Reserved == trap.op = "trap" /\ trap.ret = "panic" /\ trap.kind = "Reserved"

(***************************************************************************)
(* Further properties of the PageTableManager (checked under PtmSpec)      *)
(***************************************************************************)
\* the page of index idx of the range call c
RangePage(c, idx) == offset(c.start, idx * 4096)

\* every page of the range of call c has a leaf with the permissions asked
\* for, and each page came fresh from the physical allocator
RangeMapped(c) ==
    /\ \A idx \in 0..(c.size \div 4096 - 1) :
          table[RangePage(c, idx)] # NotValid /\ table[RangePage(c, idx)].perms = c.perms
    /\ phys_free = c.phys - c.size \div 4096

\* C27: alloc_virtual_range_with_data(start, size, perms, data) maps the same
\* set of pages as alloc_virtual_range(start, size, perms): for every
\* page-aligned size and every data slice (also one shorter than size, or
\* empty) each of the size / 4096 pages starting at start is mapped to its
\* own freshly allocated physical page with perms, and the i-th 4096-byte
\* chunk of data is copied to the start of the i-th page.
C27_RangeWithData ==
    (range_call.done /\ range_call.name = "alloc_virtual_range_with_data") =>
        /\ RangeMapped(range_call)
        /\ \A idx \in 0..(range_call.size \div 4096 - 1) :
              idx < chunks(range_call.len) => table[RangePage(range_call, idx)].content = Chunk(idx)

\* alloc_virtual_range does map every page of its range
C27_RangeMapsAll ==
    (range_call.done /\ range_call.name = "alloc_virtual_range") => RangeMapped(range_call)

\* alloc_virtual_range_with_data returns with a page of its range not mapped
C27_PageLeftOut ==
    /\ range_call.done /\ range_call.name = "alloc_virtual_range_with_data"
    /\ range_call.size = 8192 /\ range_call.len = 8
    /\ table[RangePage(range_call, 0)].content = "chunk0"
    /\ table[RangePage(range_call, 1)] = NotValid

(***************************************************************************)
(* Further properties of CapabilityRights (checked under RightsSpec)       *)
(***************************************************************************)
\* C28: for all CapabilityRights values a and b the overloaded a & b returns
\* a boolean equal to a.is_superset(b) (true iff (a & b) == b bitwise), not
\* a combined mask; and every CapabilityRights value obtained from new(), the
\* four constants and any number of | and |= combinations has no bit set
\* outside READ | WRITE | EXECUTE | GRANT (0xF).
C28_BitAndIsSuperset ==
    /\ rights.anded =>
        /\ rights.and_res \in BOOLEAN
        /\ rights.and_res = is_superset(rights.self, rights.other)
        /\ rights.and_res = (BitsOf(rights.self) \cap BitsOf(rights.other) = BitsOf(rights.other))
    /\ (rights.anded /\ rights.done) => rights.and_res = rights.res
    /\ BitsOf(rights.self) \subseteq 0..3
    /\ BitsOf(rights.other) \subseteq 0..3

C28_Witness ==
    /\ rights.anded /\ rights.done /\ rights.combined
    /\ rights.self = Lit(5) /\ rights.other = Lit(7)
    /\ ~rights.and_res

(***************************************************************************)
(* Totality and the kinds of the AddressMap (checked under Spec)           *)
(***************************************************************************)
\* C29: alloc and free are total on reachable states: for every map reached
\* by a sequence of alloc and free calls and every range argument with
\* start < end the call returns Ok or Err and never panics (no unwrap on a
\* missing key), also when the freed region, or the unoccupied run it is
\* merged into, begins at the first address of the userspace range.
C29_AllocFreeTotal ==
    /\ ~panicked
    /\ last.op \in {"alloc", "free"} => last.res \in {"Ok", "Err"}

\* the free of a region that begins at the first address of the userspace
\* range and is followed by an unoccupied region panics
C29_PanicAtFirstAddress ==
    /\ panicked
    /\ last.op = "free" /\ last.res = "Panic"
    /\ last.range.start = userspace_range.start
    /\ ExactOccupied(pre, last.range)

\* C30: in every reachable map state a region has no backing
\* (region = None) if and only if its kind is Unoccupied; in particular the
\* region left behind by free carries the kind Unoccupied, not the kind it
\* was allocated with.
C30_UnoccupiedKind ==
    \A k \in DOMAIN map : (map[k].region = None) <=> (map[k].kind = "Unoccupied")

\* free has returned Ok and the region it left has the kind given to alloc
C30_StaleKind ==
    /\ last.op = "free" /\ last.res = "Ok"
    /\ \E k \in DOMAIN map :
        /\ map[k].region = None
        /\ map[k].span.start <= last.range.start /\ last.range.end <= map[k].span.end
        /\ map[k].kind \in AllocKinds

(***************************************************************************)
(* The regions a call is not about (checked under Spec)                    *)
(***************************************************************************)
\* the keys of the occupied regions of m whose span is not R
OtherOccupied(m, R) == {k \in DOMAIN m : m[k].region # None /\ m[k].span # R}

AllocOrFreeReturned == last.op \in {"alloc", "free"} /\ last.res \in {"Ok", "Err"}

\* C31: alloc and free leave every other occupied region untouched: for any
\* call on a range R, successful or failing, each occupied region whose span
\* is not R keeps the same span, backing and kind, and remains retrievable by
\* a later free of its exact span.
C31_OthersKept ==
    AllocOrFreeReturned =>
        \A k \in OtherOccupied(pre, last.range) :
            /\ k \in DOMAIN map
            /\ map[k] = pre[k]
            /\ LET later == free(map, pre[k].span)
               IN  later.res = "Ok" /\ later.ret = pre[k].region

\* the part of C31 that holds: the other occupied regions are stored as before
C31_RegionsStored ==
    AllocOrFreeReturned =>
        \A k \in OtherOccupied(pre, last.range) : k \in DOMAIN map /\ map[k] = pre[k]

\* a free that returned Ok has made the free of another region panic, which
\* would have returned Ok before it
C31_LaterFreePanics ==
    /\ last.op = "free" /\ last.res = "Ok"
    /\ \E k \in OtherOccupied(pre, last.range) :
        /\ free(pre, pre[k].span).res = "Ok"
        /\ free(map, pre[k].span).res = "Panic"

(***************************************************************************)
(* What print reads and writes (checked under TrapSpec)                    *)
(***************************************************************************)
\* offsets into a buffer of len > 0 bytes that between them touch every page
\* the buffer intersects: one per 4096 bytes, and the last byte
BufferOffsets(len) == {i * 4096 : i \in 0..((len - 1) \div 4096)} \cup {len - 1}

\* the pages that intersect the buffer [virt, virt + len)
BufferPages(virt, len) == {page_of(Add64(virt, d)) : d \in BufferOffsets(len)}

\* address a is outside the kernel region and its page is mapped in pf with
\* the permission perm
UserMapped(pf, a, perm) ==
    /\ ~is_kernel_region(a)
    /\ page_of(a) \in DOMAIN pf
    /\ perm \in pf[page_of(a)]

\* C32: the print syscall writes bytes to the console only if every page
\* that intersects the source buffer [virt, virt + len) is mapped readable
\* in the calling task's page table and no byte of the buffer lies in the
\* kernel region; and it writes its result only to an address that is mapped
\* writable and outside the kernel region.
C32_PrintAccess ==
    PrintSyscall(trap) =>
        LET pf == trap.pre_flags[trap.active]
        IN  /\ trap.console =>
                  \A p \in BufferPages(trap.in.a1, trap.in.a2) : UserMapped(pf, p, "READ")
            /\ trap.res_at # NoAddr => UserMapped(pf, trap.res_at, "WRITE")

\* print has sent a buffer to the console that runs over a page not mapped
C32_UnmappedPrinted ==
    /\ PrintSyscall(trap)
    /\ trap.console
    /\ PageUnmapped \in BufferPages(trap.in.a1, trap.in.a2)
    /\ PageUnmapped \notin DOMAIN trap.pre_flags[trap.active]

\* the source buffer is sound whenever print writes to the console and the
\* buffer lies within one page
C32_OnePageSound ==
    (PrintSyscall(trap) /\ trap.console /\ trap.in.a2 <= 4096) =>
        \A p \in BufferPages(trap.in.a1, trap.in.a2) :
            UserMapped(trap.pre_flags[trap.active], p, "READ")

(***************************************************************************)
(* The task lock and the Scheduler (checked under TrapSpec)                *)
(***************************************************************************)
\* the number of task locks the hart holds before the event at position i
LocksHeld(es, i) ==
    Cardinality({j \in Positions(es, "lock") : j < i})
        - Cardinality({j \in Positions(es, "unlock") : j < i})

\* C33: on every path of trap_handler that invokes the Scheduler (timer
\* interrupt, syscall completion, task death on a page fault) the active
\* task's lock has been released before the Scheduler is invoked, so the
\* Scheduler is never entered while the trapping hart holds a task lock.
C33_SchedulerUnlocked ==
    (trap.op = "trap") =>
        /\ \A i \in Positions(trap.events, "schedule") : LocksHeld(trap.events, i) = 0
        /\ \A i \in DOMAIN trap.events : LocksHeld(trap.events, i) \in {0, 1}
        /\ (trap.ret = "scheduled") <=> (Positions(trap.events, "schedule") # {})
        /\ (trap.ret = "scheduled") =>
              \/ trap.kind \in {"SupervisorTimerInterrupt", "UserModeEnvironmentCall"}
              \/ trap.kind \in PageFaultKinds /\ task_state[trap.active] = "Dead"

\* the timer path, with a task active: locked for the context, then scheduled
C33_Witness ==
    /\ Timer(trap)
    /\ trap.active \in Tasks
    /\ trap.events = <<"lock", "context", "unlock", "schedule">>
    /\ trap.ret = "scheduled"

\* the other two paths of C33
C33_SyscallPath == Syscall(trap) /\ trap.ret = "scheduled" /\ Once(trap.events, "unlock")

C33_DeathPath ==
    /\ UnmappedFault(trap) /\ trap.ret = "scheduled"
    /\ At(trap.events, "unlock") < At(trap.events, "schedule")

====
